---------------------------- MODULE Spec2Model ----------------------------
(***************************************************************************)
(* Model of the box dump registry of GPAC's ISO media library              *)
(* (src/isomedia/box_dump.c): the table defined_box_types, the dispatcher  *)
(* gf_box_dump_ex, the tree walkers gf_box_array_dump / gf_box_dump_done,  *)
(* the top-level driver gf_isom_dump, the synthesizer                      *)
(* gf_isom_dump_supported_box and the renderers the properties below are   *)
(* about.                                                                  *)
(*                                                                         *)
(* Conventions.  A 4CC is a string naming the constant of the source       *)
(* without its GF_ISOM_BOX_TYPE_ / GF_ISOM_ prefix ("REFT", "REF_HINT");   *)
(* the 4CC 0 is Zero4CC.  A box pointer is an index into heap, 0 is NULL.  *)
(* C indexes defined_box_types from 0, the model from 1.  The output       *)
(* stream is the sequence of tokens written with fprintf: an "open" token  *)
(* is what DumpBox writes, "attr" an attribute of the opening marker,      *)
(* "gt" the ">" that ends it, "sgt" the "/>" that ends and closes it,      *)
(* "elem" a complete self-closed sub-element, "close" a closing marker and *)
(* "comment" an XML comment.                                               *)
(***************************************************************************)
EXTENDS Integers, Sequences, FiniteSets, TLC

VARIABLES
    heap,       \* the box nodes built by the parser: heap[a] is the node *a
    TopBoxes,   \* mov->TopBoxes, a list of box pointers
    trace,      \* the output stream written by the last operation
    log,        \* the messages the last operation sent to GF_LOG
    ret,        \* the GF_Err returned by the last operation
    calls,      \* the dump_fn invocations made by gf_box_dump_ex in the last operation
    op,         \* the last operation and its arguments
    pre,        \* the heap as it was when the last operation was called
    prevTrace,  \* the output of the operation before, when it was the same operation
    overread,   \* whether a bit reader of the last operation read past its end
    bitsRead,   \* the position of the last bit reader when it was deleted
    rtl,        \* whether the build evaluates function arguments right to left
    threads     \* the render calls running interleaved: what each has left to
                \* execute, and its own output, messages and return value

vars == <<heap, TopBoxes, trace, log, ret, calls, op, pre, prevTrace, overread, bitsRead, rtl,
          threads>>

Zero4CC == "0"
NULL == 0

\* TREF_DUMP_DEF that declares free_dump in the place of __fun
TREF_DUMP_DEF_free(type, fun, cc) ==
    [box_4cc |-> type, dump_fn |-> "free_dump", alt_4cc |-> cc, max_version |-> 0, flags |-> 0]

\* #define TREF_DUMP_DEF(__type, __fun, __4cc) { __type, __fun, __4cc, 0, 0 }
TREF_DUMP_DEF(type, fun, cc) ==
    [box_4cc |-> type, dump_fn |-> fun, alt_4cc |-> cc, max_version |-> 0, flags |-> 0]

\* #define TRGT_DUMP_DEF(__type, __fun, __4cc, max_version)
\*         { __type, __fun, 0, max_version, 0 }
TRGT_DUMP_DEF(type, fun, cc, max_version) ==
    [box_4cc |-> type, dump_fn |-> fun, alt_4cc |-> Zero4CC, max_version |-> max_version,
     flags |-> 0]

GF_OK == "GF_OK"
GF_BAD_PARAM == "GF_BAD_PARAM"
GF_ISOM_INVALID_FILE == "GF_ISOM_INVALID_FILE"

defined_box_types ==
  <<
    [box_4cc |-> "UNKNOWN", dump_fn |-> "unkn_dump", alt_4cc |-> "0", max_version |-> 0, flags |-> 0],
    TREF_DUMP_DEF("REFT", "reftype_dump", "REF_OD"),
    TREF_DUMP_DEF("REFT", "reftype_dump", "REF_DECODE"),
    TREF_DUMP_DEF("REFT", "reftype_dump", "REF_OCR"),
    TREF_DUMP_DEF("REFT", "reftype_dump", "REF_IPI"),
    TREF_DUMP_DEF("REFT", "reftype_dump", "REF_META"),
    TREF_DUMP_DEF("REFT", "reftype_dump", "REF_HINT"),
    TREF_DUMP_DEF("REFT", "reftype_dump", "REF_CHAP"),
    TREF_DUMP_DEF("REFT", "reftype_dump", "REF_BASE"),
    TREF_DUMP_DEF("REFT", "reftype_dump", "REF_SCAL"),
    TREF_DUMP_DEF("REFT", "reftype_dump", "REF_TBAS"),
    TREF_DUMP_DEF("REFT", "reftype_dump", "REF_SABT"),
    TREF_DUMP_DEF("REFT", "reftype_dump", "REF_OREF"),
    TREF_DUMP_DEF("REFT", "reftype_dump", "REF_FONT"),
    TREF_DUMP_DEF("REFT", "reftype_dump", "REF_HIND"),
    TREF_DUMP_DEF("REFT", "reftype_dump", "REF_VDEP"),
    TREF_DUMP_DEF("REFT", "reftype_dump", "REF_VPLX"),
    TREF_DUMP_DEF("REFT", "reftype_dump", "REF_SUBT"),
    TREF_DUMP_DEF("REFI", "ireftype_dump", "REF_TBAS"),
    TREF_DUMP_DEF("REFI", "ireftype_dump", "iloc"),
    [box_4cc |-> "FREE", dump_fn |-> "free_dump", alt_4cc |-> "0", max_version |-> 0, flags |-> 0],
    [box_4cc |-> "SKIP", dump_fn |-> "free_dump", alt_4cc |-> "0", max_version |-> 0, flags |-> 0],
    [box_4cc |-> "MDAT", dump_fn |-> "mdat_dump", alt_4cc |-> "0", max_version |-> 0, flags |-> 0],
    [box_4cc |-> "MOOV", dump_fn |-> "moov_dump", alt_4cc |-> "0", max_version |-> 0, flags |-> 0],
    [box_4cc |-> "MVHD", dump_fn |-> "mvhd_dump", alt_4cc |-> "0", max_version |-> 1, flags |-> 0],
    [box_4cc |-> "MDHD", dump_fn |-> "mdhd_dump", alt_4cc |-> "0", max_version |-> 1, flags |-> 0],
    [box_4cc |-> "VMHD", dump_fn |-> "vmhd_dump", alt_4cc |-> "0", max_version |-> 0, flags |-> 0],
    [box_4cc |-> "SMHD", dump_fn |-> "smhd_dump", alt_4cc |-> "0", max_version |-> 0, flags |-> 0],
    [box_4cc |-> "HMHD", dump_fn |-> "hmhd_dump", alt_4cc |-> "0", max_version |-> 0, flags |-> 0],
    [box_4cc |-> "ODHD", dump_fn |-> "nmhd_dump", alt_4cc |-> "0", max_version |-> 0, flags |-> 0],
    [box_4cc |-> "CRHD", dump_fn |-> "nmhd_dump", alt_4cc |-> "0", max_version |-> 0, flags |-> 0],
    [box_4cc |-> "SDHD", dump_fn |-> "nmhd_dump", alt_4cc |-> "0", max_version |-> 0, flags |-> 0],
    [box_4cc |-> "NMHD", dump_fn |-> "nmhd_dump", alt_4cc |-> "0", max_version |-> 0, flags |-> 0],
    [box_4cc |-> "STHD", dump_fn |-> "nmhd_dump", alt_4cc |-> "0", max_version |-> 0, flags |-> 0],
    [box_4cc |-> "STBL", dump_fn |-> "stbl_dump", alt_4cc |-> "0", max_version |-> 0, flags |-> 0],
    [box_4cc |-> "DINF", dump_fn |-> "dinf_dump", alt_4cc |-> "0", max_version |-> 0, flags |-> 0],
    [box_4cc |-> "URL", dump_fn |-> "url_dump", alt_4cc |-> "0", max_version |-> 0, flags |-> 0],
    [box_4cc |-> "URN", dump_fn |-> "urn_dump", alt_4cc |-> "0", max_version |-> 0, flags |-> 0],
    [box_4cc |-> "CPRT", dump_fn |-> "cprt_dump", alt_4cc |-> "0", max_version |-> 1, flags |-> 0],
    [box_4cc |-> "KIND", dump_fn |-> "kind_dump", alt_4cc |-> "0", max_version |-> 0, flags |-> 0],
    [box_4cc |-> "HDLR", dump_fn |-> "hdlr_dump", alt_4cc |-> "0", max_version |-> 0, flags |-> 0],
    [box_4cc |-> "IODS", dump_fn |-> "iods_dump", alt_4cc |-> "0", max_version |-> 0, flags |-> 0],
    [box_4cc |-> "TRAK", dump_fn |-> "trak_dump", alt_4cc |-> "0", max_version |-> 0, flags |-> 0],
    [box_4cc |-> "MP4S", dump_fn |-> "mp4s_dump", alt_4cc |-> "0", max_version |-> 0, flags |-> 0],
    [box_4cc |-> "MP4V", dump_fn |-> "mp4v_dump", alt_4cc |-> "0", max_version |-> 0, flags |-> 0],
    [box_4cc |-> "MP4A", dump_fn |-> "mp4a_dump", alt_4cc |-> "0", max_version |-> 0, flags |-> 0],
    [box_4cc |-> "GNRM", dump_fn |-> "gnrm_dump", alt_4cc |-> "0", max_version |-> 0, flags |-> 0],
    [box_4cc |-> "GNRV", dump_fn |-> "gnrv_dump", alt_4cc |-> "0", max_version |-> 0, flags |-> 0],
    [box_4cc |-> "GNRA", dump_fn |-> "gnra_dump", alt_4cc |-> "0", max_version |-> 0, flags |-> 0],
    [box_4cc |-> "EDTS", dump_fn |-> "edts_dump", alt_4cc |-> "0", max_version |-> 0, flags |-> 0],
    [box_4cc |-> "UDTA", dump_fn |-> "udta_dump", alt_4cc |-> "0", max_version |-> 0, flags |-> 0],
    [box_4cc |-> "DREF", dump_fn |-> "dref_dump", alt_4cc |-> "0", max_version |-> 0, flags |-> 0],
    [box_4cc |-> "STSD", dump_fn |-> "stsd_dump", alt_4cc |-> "0", max_version |-> 0, flags |-> 0],
    [box_4cc |-> "STTS", dump_fn |-> "stts_dump", alt_4cc |-> "0", max_version |-> 0, flags |-> 0],
    [box_4cc |-> "CTTS", dump_fn |-> "ctts_dump", alt_4cc |-> "0", max_version |-> 1, flags |-> 0],
    [box_4cc |-> "CSLG", dump_fn |-> "cslg_dump", alt_4cc |-> "0", max_version |-> 1, flags |-> 0],
    [box_4cc |-> "STSH", dump_fn |-> "stsh_dump", alt_4cc |-> "0", max_version |-> 0, flags |-> 0],
    [box_4cc |-> "ELST", dump_fn |-> "elst_dump", alt_4cc |-> "0", max_version |-> 1, flags |-> 0],
    [box_4cc |-> "STSC", dump_fn |-> "stsc_dump", alt_4cc |-> "0", max_version |-> 0, flags |-> 0],
    [box_4cc |-> "STZ2", dump_fn |-> "stsz_dump", alt_4cc |-> "0", max_version |-> 0, flags |-> 0],
    [box_4cc |-> "STSZ", dump_fn |-> "stsz_dump", alt_4cc |-> "0", max_version |-> 0, flags |-> 0],
    [box_4cc |-> "STCO", dump_fn |-> "stco_dump", alt_4cc |-> "0", max_version |-> 0, flags |-> 0],
    [box_4cc |-> "STSS", dump_fn |-> "stss_dump", alt_4cc |-> "0", max_version |-> 0, flags |-> 0],
    [box_4cc |-> "STDP", dump_fn |-> "stdp_dump", alt_4cc |-> "0", max_version |-> 0, flags |-> 0],
    [box_4cc |-> "SDTP", dump_fn |-> "sdtp_dump", alt_4cc |-> "0", max_version |-> 0, flags |-> 0],
    [box_4cc |-> "CO64", dump_fn |-> "co64_dump", alt_4cc |-> "0", max_version |-> 0, flags |-> 0],
    [box_4cc |-> "ESDS", dump_fn |-> "esds_dump", alt_4cc |-> "0", max_version |-> 0, flags |-> 0],
    [box_4cc |-> "MINF", dump_fn |-> "minf_dump", alt_4cc |-> "0", max_version |-> 0, flags |-> 0],
    [box_4cc |-> "TKHD", dump_fn |-> "tkhd_dump", alt_4cc |-> "0", max_version |-> 1, flags |-> 0],
    [box_4cc |-> "TREF", dump_fn |-> "tref_dump", alt_4cc |-> "0", max_version |-> 0, flags |-> 0],
    [box_4cc |-> "MDIA", dump_fn |-> "mdia_dump", alt_4cc |-> "0", max_version |-> 0, flags |-> 0],
    [box_4cc |-> "MFRA", dump_fn |-> "mfra_dump", alt_4cc |-> "0", max_version |-> 0, flags |-> 0],
    [box_4cc |-> "TFRA", dump_fn |-> "tfra_dump", alt_4cc |-> "0", max_version |-> 1, flags |-> 0],
    [box_4cc |-> "ELNG", dump_fn |-> "elng_dump", alt_4cc |-> "0", max_version |-> 0, flags |-> 0],
    [box_4cc |-> "CHPL", dump_fn |-> "chpl_dump", alt_4cc |-> "0", max_version |-> 0, flags |-> 0],
    [box_4cc |-> "PDIN", dump_fn |-> "dpin_dump", alt_4cc |-> "0", max_version |-> 0, flags |-> 0],
    [box_4cc |-> "SBGP", dump_fn |-> "sbgp_dump", alt_4cc |-> "0", max_version |-> 1, flags |-> 0],
    [box_4cc |-> "SGPD", dump_fn |-> "sgpd_dump", alt_4cc |-> "0", max_version |-> 2, flags |-> 0],
    TREF_DUMP_DEF("SGPD", "sgpd_dump", "SAMPLE_GROUP_ROLL"),
    TREF_DUMP_DEF("SGPD", "sgpd_dump", "SAMPLE_GROUP_SEIG"),
    TREF_DUMP_DEF("SGPD", "sgpd_dump", "SAMPLE_GROUP_OINF"),
    TREF_DUMP_DEF("SGPD", "sgpd_dump", "SAMPLE_GROUP_LINF"),
    TREF_DUMP_DEF("SGPD", "sgpd_dump", "SAMPLE_GROUP_TRIF"),
    TREF_DUMP_DEF("SGPD", "sgpd_dump", "SAMPLE_GROUP_NALM"),
    [box_4cc |-> "SAIZ", dump_fn |-> "saiz_dump", alt_4cc |-> "0", max_version |-> 0, flags |-> 0],
    [box_4cc |-> "SAIZ", dump_fn |-> "saiz_dump", alt_4cc |-> "0", max_version |-> 0, flags |-> 1],
    [box_4cc |-> "SAIO", dump_fn |-> "saio_dump", alt_4cc |-> "0", max_version |-> 0, flags |-> 0],
    [box_4cc |-> "SAIO", dump_fn |-> "saio_dump", alt_4cc |-> "0", max_version |-> 0, flags |-> 1],
    [box_4cc |-> "RTP_STSD", dump_fn |-> "ghnt_dump", alt_4cc |-> "0", max_version |-> 0, flags |-> 0],
    [box_4cc |-> "RTPO", dump_fn |-> "rtpo_dump", alt_4cc |-> "0", max_version |-> 0, flags |-> 0],
    [box_4cc |-> "HNTI", dump_fn |-> "hnti_dump", alt_4cc |-> "0", max_version |-> 0, flags |-> 0],
    [box_4cc |-> "SDP", dump_fn |-> "sdp_dump", alt_4cc |-> "0", max_version |-> 0, flags |-> 0],
    [box_4cc |-> "HINF", dump_fn |-> "hinf_dump", alt_4cc |-> "0", max_version |-> 0, flags |-> 0],
    [box_4cc |-> "RELY", dump_fn |-> "rely_dump", alt_4cc |-> "0", max_version |-> 0, flags |-> 0],
    [box_4cc |-> "TIMS", dump_fn |-> "tims_dump", alt_4cc |-> "0", max_version |-> 0, flags |-> 0],
    [box_4cc |-> "TSRO", dump_fn |-> "tsro_dump", alt_4cc |-> "0", max_version |-> 0, flags |-> 0],
    [box_4cc |-> "SNRO", dump_fn |-> "snro_dump", alt_4cc |-> "0", max_version |-> 0, flags |-> 0],
    [box_4cc |-> "TRPY", dump_fn |-> "trpy_dump", alt_4cc |-> "0", max_version |-> 0, flags |-> 0],
    [box_4cc |-> "NUMP", dump_fn |-> "nump_dump", alt_4cc |-> "0", max_version |-> 0, flags |-> 0],
    [box_4cc |-> "TOTL", dump_fn |-> "totl_dump", alt_4cc |-> "0", max_version |-> 0, flags |-> 0],
    [box_4cc |-> "NPCK", dump_fn |-> "npck_dump", alt_4cc |-> "0", max_version |-> 0, flags |-> 0],
    [box_4cc |-> "TPYL", dump_fn |-> "tpyl_dump", alt_4cc |-> "0", max_version |-> 0, flags |-> 0],
    [box_4cc |-> "TPAY", dump_fn |-> "tpay_dump", alt_4cc |-> "0", max_version |-> 0, flags |-> 0],
    [box_4cc |-> "MAXR", dump_fn |-> "maxr_dump", alt_4cc |-> "0", max_version |-> 0, flags |-> 0],
    [box_4cc |-> "DMED", dump_fn |-> "dmed_dump", alt_4cc |-> "0", max_version |-> 0, flags |-> 0],
    [box_4cc |-> "DIMM", dump_fn |-> "dimm_dump", alt_4cc |-> "0", max_version |-> 0, flags |-> 0],
    [box_4cc |-> "DREP", dump_fn |-> "drep_dump", alt_4cc |-> "0", max_version |-> 0, flags |-> 0],
    [box_4cc |-> "TMIN", dump_fn |-> "tmin_dump", alt_4cc |-> "0", max_version |-> 0, flags |-> 0],
    [box_4cc |-> "TMAX", dump_fn |-> "tmax_dump", alt_4cc |-> "0", max_version |-> 0, flags |-> 0],
    [box_4cc |-> "PMAX", dump_fn |-> "pmax_dump", alt_4cc |-> "0", max_version |-> 0, flags |-> 0],
    [box_4cc |-> "DMAX", dump_fn |-> "dmax_dump", alt_4cc |-> "0", max_version |-> 0, flags |-> 0],
    [box_4cc |-> "PAYT", dump_fn |-> "payt_dump", alt_4cc |-> "0", max_version |-> 0, flags |-> 0],
    [box_4cc |-> "NAME", dump_fn |-> "name_dump", alt_4cc |-> "0", max_version |-> 0, flags |-> 0],
    [box_4cc |-> "FTYP", dump_fn |-> "ftyp_dump", alt_4cc |-> "0", max_version |-> 0, flags |-> 0],
    [box_4cc |-> "STYP", dump_fn |-> "ftyp_dump", alt_4cc |-> "0", max_version |-> 0, flags |-> 0],
    [box_4cc |-> "PADB", dump_fn |-> "padb_dump", alt_4cc |-> "0", max_version |-> 0, flags |-> 0],
    [box_4cc |-> "MVEX", dump_fn |-> "mvex_dump", alt_4cc |-> "0", max_version |-> 0, flags |-> 0],
    [box_4cc |-> "MEHD", dump_fn |-> "mehd_dump", alt_4cc |-> "0", max_version |-> 1, flags |-> 0],
    [box_4cc |-> "TREX", dump_fn |-> "trex_dump", alt_4cc |-> "0", max_version |-> 0, flags |-> 0],
    [box_4cc |-> "TREP", dump_fn |-> "trep_dump", alt_4cc |-> "0", max_version |-> 0, flags |-> 0],
    [box_4cc |-> "MOOF", dump_fn |-> "moof_dump", alt_4cc |-> "0", max_version |-> 0, flags |-> 0],
    [box_4cc |-> "MFHD", dump_fn |-> "mfhd_dump", alt_4cc |-> "0", max_version |-> 0, flags |-> 0],
    [box_4cc |-> "TRAF", dump_fn |-> "traf_dump", alt_4cc |-> "0", max_version |-> 0, flags |-> 0],
    [box_4cc |-> "TFHD", dump_fn |-> "tfhd_dump", alt_4cc |-> "0", max_version |-> 0, flags |-> 196667],
    [box_4cc |-> "TRUN", dump_fn |-> "trun_dump", alt_4cc |-> "0", max_version |-> 0, flags |-> 3845],
    [box_4cc |-> "TFDT", dump_fn |-> "tfdt_dump", alt_4cc |-> "0", max_version |-> 1, flags |-> 0],
    [box_4cc |-> "SUBS", dump_fn |-> "subs_dump", alt_4cc |-> "0", max_version |-> 1, flags |-> 0],
    [box_4cc |-> "RVCC", dump_fn |-> "rvcc_dump", alt_4cc |-> "0", max_version |-> 0, flags |-> 0],
    [box_4cc |-> "TRGR", dump_fn |-> "trgr_dump", alt_4cc |-> "0", max_version |-> 0, flags |-> 0],
    TRGT_DUMP_DEF("TRGT", "trgt_dump", "msrc", 0),
    [box_4cc |-> "VOID", dump_fn |-> "void_dump", alt_4cc |-> "0", max_version |-> 0, flags |-> 0],
    [box_4cc |-> "STSF", dump_fn |-> "stsf_dump", alt_4cc |-> "0", max_version |-> 0, flags |-> 0],
    [box_4cc |-> "SUBTYPE_3GP_AMR", dump_fn |-> "gppa_dump", alt_4cc |-> "0", max_version |-> 0, flags |-> 0],
    [box_4cc |-> "SUBTYPE_3GP_AMR_WB", dump_fn |-> "gppa_dump", alt_4cc |-> "0", max_version |-> 0, flags |-> 0],
    [box_4cc |-> "SUBTYPE_3GP_QCELP", dump_fn |-> "gppa_dump", alt_4cc |-> "0", max_version |-> 0, flags |-> 0],
    [box_4cc |-> "SUBTYPE_3GP_EVRC", dump_fn |-> "gppa_dump", alt_4cc |-> "0", max_version |-> 0, flags |-> 0],
    [box_4cc |-> "SUBTYPE_3GP_SMV", dump_fn |-> "gppa_dump", alt_4cc |-> "0", max_version |-> 0, flags |-> 0],
    [box_4cc |-> "SUBTYPE_3GP_H263", dump_fn |-> "gppv_dump", alt_4cc |-> "0", max_version |-> 0, flags |-> 0],
    [box_4cc |-> "DAMR", dump_fn |-> "gppc_dump", alt_4cc |-> "0", max_version |-> 0, flags |-> 0],
    [box_4cc |-> "DEVC", dump_fn |-> "gppc_dump", alt_4cc |-> "0", max_version |-> 0, flags |-> 0],
    [box_4cc |-> "DQCP", dump_fn |-> "gppc_dump", alt_4cc |-> "0", max_version |-> 0, flags |-> 0],
    [box_4cc |-> "DSMV", dump_fn |-> "gppc_dump", alt_4cc |-> "0", max_version |-> 0, flags |-> 0],
    [box_4cc |-> "D263", dump_fn |-> "gppc_dump", alt_4cc |-> "0", max_version |-> 0, flags |-> 0],
    [box_4cc |-> "AVCC", dump_fn |-> "avcc_dump", alt_4cc |-> "0", max_version |-> 0, flags |-> 0],
    [box_4cc |-> "SVCC", dump_fn |-> "avcc_dump", alt_4cc |-> "0", max_version |-> 0, flags |-> 0],
    [box_4cc |-> "HVCC", dump_fn |-> "hvcc_dump", alt_4cc |-> "0", max_version |-> 0, flags |-> 0],
    [box_4cc |-> "LHVC", dump_fn |-> "hvcc_dump", alt_4cc |-> "0", max_version |-> 0, flags |-> 0],
    [box_4cc |-> "BTRT", dump_fn |-> "btrt_dump", alt_4cc |-> "0", max_version |-> 0, flags |-> 0],
    [box_4cc |-> "M4DS", dump_fn |-> "m4ds_dump", alt_4cc |-> "0", max_version |-> 0, flags |-> 0],
    [box_4cc |-> "AVC1", dump_fn |-> "mp4v_dump", alt_4cc |-> "0", max_version |-> 0, flags |-> 0],
    [box_4cc |-> "AVC2", dump_fn |-> "mp4v_dump", alt_4cc |-> "0", max_version |-> 0, flags |-> 0],
    [box_4cc |-> "AVC3", dump_fn |-> "mp4v_dump", alt_4cc |-> "0", max_version |-> 0, flags |-> 0],
    [box_4cc |-> "AVC4", dump_fn |-> "mp4v_dump", alt_4cc |-> "0", max_version |-> 0, flags |-> 0],
    [box_4cc |-> "SVC1", dump_fn |-> "mp4v_dump", alt_4cc |-> "0", max_version |-> 0, flags |-> 0],
    [box_4cc |-> "HVC1", dump_fn |-> "mp4v_dump", alt_4cc |-> "0", max_version |-> 0, flags |-> 0],
    [box_4cc |-> "HEV1", dump_fn |-> "mp4v_dump", alt_4cc |-> "0", max_version |-> 0, flags |-> 0],
    [box_4cc |-> "HVC2", dump_fn |-> "mp4v_dump", alt_4cc |-> "0", max_version |-> 0, flags |-> 0],
    [box_4cc |-> "HEV2", dump_fn |-> "mp4v_dump", alt_4cc |-> "0", max_version |-> 0, flags |-> 0],
    [box_4cc |-> "LHV1", dump_fn |-> "mp4v_dump", alt_4cc |-> "0", max_version |-> 0, flags |-> 0],
    [box_4cc |-> "LHE1", dump_fn |-> "mp4v_dump", alt_4cc |-> "0", max_version |-> 0, flags |-> 0],
    [box_4cc |-> "HVT1", dump_fn |-> "mp4v_dump", alt_4cc |-> "0", max_version |-> 0, flags |-> 0],
    [box_4cc |-> "PASP", dump_fn |-> "pasp_dump", alt_4cc |-> "0", max_version |-> 0, flags |-> 0],
    [box_4cc |-> "FTAB", dump_fn |-> "ftab_dump", alt_4cc |-> "0", max_version |-> 0, flags |-> 0],
    [box_4cc |-> "TX3G", dump_fn |-> "tx3g_dump", alt_4cc |-> "0", max_version |-> 0, flags |-> 0],
    [box_4cc |-> "TEXT", dump_fn |-> "text_dump", alt_4cc |-> "0", max_version |-> 0, flags |-> 0],
    [box_4cc |-> "STYL", dump_fn |-> "styl_dump", alt_4cc |-> "0", max_version |-> 0, flags |-> 0],
    [box_4cc |-> "HLIT", dump_fn |-> "hlit_dump", alt_4cc |-> "0", max_version |-> 0, flags |-> 0],
    [box_4cc |-> "HCLR", dump_fn |-> "hclr_dump", alt_4cc |-> "0", max_version |-> 0, flags |-> 0],
    [box_4cc |-> "KROK", dump_fn |-> "krok_dump", alt_4cc |-> "0", max_version |-> 0, flags |-> 0],
    [box_4cc |-> "DLAY", dump_fn |-> "dlay_dump", alt_4cc |-> "0", max_version |-> 0, flags |-> 0],
    [box_4cc |-> "HREF", dump_fn |-> "href_dump", alt_4cc |-> "0", max_version |-> 0, flags |-> 0],
    [box_4cc |-> "TBOX", dump_fn |-> "tbox_dump", alt_4cc |-> "0", max_version |-> 0, flags |-> 0],
    [box_4cc |-> "BLNK", dump_fn |-> "blnk_dump", alt_4cc |-> "0", max_version |-> 0, flags |-> 0],
    [box_4cc |-> "TWRP", dump_fn |-> "twrp_dump", alt_4cc |-> "0", max_version |-> 0, flags |-> 0],
    [box_4cc |-> "PSSH", dump_fn |-> "pssh_dump", alt_4cc |-> "0", max_version |-> 0, flags |-> 0],
    [box_4cc |-> "TENC", dump_fn |-> "tenc_dump", alt_4cc |-> "0", max_version |-> 0, flags |-> 0],
    [box_4cc |-> "IKMS", dump_fn |-> "iKMS_dump", alt_4cc |-> "0", max_version |-> 0, flags |-> 0],
    [box_4cc |-> "ISFM", dump_fn |-> "iSFM_dump", alt_4cc |-> "0", max_version |-> 0, flags |-> 0],
    [box_4cc |-> "META", dump_fn |-> "meta_dump", alt_4cc |-> "0", max_version |-> 0, flags |-> 0],
    [box_4cc |-> "XML", dump_fn |-> "xml_dump", alt_4cc |-> "0", max_version |-> 0, flags |-> 0],
    [box_4cc |-> "BXML", dump_fn |-> "bxml_dump", alt_4cc |-> "0", max_version |-> 0, flags |-> 0],
    [box_4cc |-> "ILOC", dump_fn |-> "iloc_dump", alt_4cc |-> "0", max_version |-> 2, flags |-> 0],
    [box_4cc |-> "PITM", dump_fn |-> "pitm_dump", alt_4cc |-> "0", max_version |-> 1, flags |-> 0],
    [box_4cc |-> "IPRO", dump_fn |-> "ipro_dump", alt_4cc |-> "0", max_version |-> 0, flags |-> 0],
    [box_4cc |-> "INFE", dump_fn |-> "infe_dump", alt_4cc |-> "0", max_version |-> 1, flags |-> 0],
    [box_4cc |-> "INFE", dump_fn |-> "infe_dump", alt_4cc |-> "0", max_version |-> 2, flags |-> 0],
    [box_4cc |-> "IINF", dump_fn |-> "iinf_dump", alt_4cc |-> "0", max_version |-> 1, flags |-> 0],
    [box_4cc |-> "IREF", dump_fn |-> "iref_dump", alt_4cc |-> "0", max_version |-> 1, flags |-> 0],
    [box_4cc |-> "SINF", dump_fn |-> "sinf_dump", alt_4cc |-> "0", max_version |-> 0, flags |-> 0],
    [box_4cc |-> "FRMA", dump_fn |-> "frma_dump", alt_4cc |-> "0", max_version |-> 0, flags |-> 0],
    [box_4cc |-> "SCHM", dump_fn |-> "schm_dump", alt_4cc |-> "0", max_version |-> 0, flags |-> 1],
    [box_4cc |-> "SCHI", dump_fn |-> "schi_dump", alt_4cc |-> "0", max_version |-> 0, flags |-> 0],
    [box_4cc |-> "ENCA", dump_fn |-> "mp4a_dump", alt_4cc |-> "0", max_version |-> 0, flags |-> 0],
    [box_4cc |-> "ENCV", dump_fn |-> "mp4v_dump", alt_4cc |-> "0", max_version |-> 0, flags |-> 0],
    [box_4cc |-> "ENCS", dump_fn |-> "mp4s_dump", alt_4cc |-> "0", max_version |-> 0, flags |-> 0],
    [box_4cc |-> "PRFT", dump_fn |-> "prft_dump", alt_4cc |-> "0", max_version |-> 1, flags |-> 0],
    [box_4cc |-> "0xA9NAM", dump_fn |-> "apple_tag_dump", alt_4cc |-> "0", max_version |-> 0, flags |-> 0],
    [box_4cc |-> "0xA9CMT", dump_fn |-> "apple_tag_dump", alt_4cc |-> "0", max_version |-> 0, flags |-> 0],
    [box_4cc |-> "0xA9DAY", dump_fn |-> "apple_tag_dump", alt_4cc |-> "0", max_version |-> 0, flags |-> 0],
    [box_4cc |-> "0xA9ART", dump_fn |-> "apple_tag_dump", alt_4cc |-> "0", max_version |-> 0, flags |-> 0],
    [box_4cc |-> "0xA9TRK", dump_fn |-> "apple_tag_dump", alt_4cc |-> "0", max_version |-> 0, flags |-> 0],
    [box_4cc |-> "0xA9ALB", dump_fn |-> "apple_tag_dump", alt_4cc |-> "0", max_version |-> 0, flags |-> 0],
    [box_4cc |-> "0xA9COM", dump_fn |-> "apple_tag_dump", alt_4cc |-> "0", max_version |-> 0, flags |-> 0],
    [box_4cc |-> "0xA9WRT", dump_fn |-> "apple_tag_dump", alt_4cc |-> "0", max_version |-> 0, flags |-> 0],
    [box_4cc |-> "0xA9TOO", dump_fn |-> "apple_tag_dump", alt_4cc |-> "0", max_version |-> 0, flags |-> 0],
    [box_4cc |-> "0xA9CPY", dump_fn |-> "apple_tag_dump", alt_4cc |-> "0", max_version |-> 0, flags |-> 0],
    [box_4cc |-> "0xA9DES", dump_fn |-> "apple_tag_dump", alt_4cc |-> "0", max_version |-> 0, flags |-> 0],
    [box_4cc |-> "0xA9GEN", dump_fn |-> "apple_tag_dump", alt_4cc |-> "0", max_version |-> 0, flags |-> 0],
    [box_4cc |-> "0xA9GRP", dump_fn |-> "apple_tag_dump", alt_4cc |-> "0", max_version |-> 0, flags |-> 0],
    [box_4cc |-> "GNRE", dump_fn |-> "apple_tag_dump", alt_4cc |-> "0", max_version |-> 0, flags |-> 0],
    [box_4cc |-> "DISK", dump_fn |-> "apple_tag_dump", alt_4cc |-> "0", max_version |-> 0, flags |-> 0],
    [box_4cc |-> "TRKN", dump_fn |-> "apple_tag_dump", alt_4cc |-> "0", max_version |-> 0, flags |-> 0],
    [box_4cc |-> "TMPO", dump_fn |-> "apple_tag_dump", alt_4cc |-> "0", max_version |-> 0, flags |-> 0],
    [box_4cc |-> "CPIL", dump_fn |-> "apple_tag_dump", alt_4cc |-> "0", max_version |-> 0, flags |-> 0],
    [box_4cc |-> "COVR", dump_fn |-> "apple_tag_dump", alt_4cc |-> "0", max_version |-> 0, flags |-> 0],
    [box_4cc |-> "iTunesSpecificInfo", dump_fn |-> "apple_tag_dump", alt_4cc |-> "0", max_version |-> 0, flags |-> 0],
    [box_4cc |-> "ABST", dump_fn |-> "abst_dump", alt_4cc |-> "0", max_version |-> 0, flags |-> 0],
    [box_4cc |-> "AFRA", dump_fn |-> "afra_dump", alt_4cc |-> "0", max_version |-> 0, flags |-> 0],
    [box_4cc |-> "ASRT", dump_fn |-> "asrt_dump", alt_4cc |-> "0", max_version |-> 0, flags |-> 0],
    [box_4cc |-> "AFRT", dump_fn |-> "afrt_dump", alt_4cc |-> "0", max_version |-> 0, flags |-> 0],
    [box_4cc |-> "ILST", dump_fn |-> "ilst_dump", alt_4cc |-> "0", max_version |-> 0, flags |-> 0],
    [box_4cc |-> "OHDR", dump_fn |-> "ohdr_dump", alt_4cc |-> "0", max_version |-> 0, flags |-> 0],
    [box_4cc |-> "GRPI", dump_fn |-> "grpi_dump", alt_4cc |-> "0", max_version |-> 0, flags |-> 0],
    [box_4cc |-> "MDRI", dump_fn |-> "mdri_dump", alt_4cc |-> "0", max_version |-> 0, flags |-> 0],
    [box_4cc |-> "ODTT", dump_fn |-> "odtt_dump", alt_4cc |-> "0", max_version |-> 0, flags |-> 0],
    [box_4cc |-> "ODRB", dump_fn |-> "odrb_dump", alt_4cc |-> "0", max_version |-> 0, flags |-> 0],
    [box_4cc |-> "ODKM", dump_fn |-> "odkm_dump", alt_4cc |-> "0", max_version |-> 0, flags |-> 0],
    [box_4cc |-> "ODAF", dump_fn |-> "iSFM_dump", alt_4cc |-> "0", max_version |-> 0, flags |-> 0],
    [box_4cc |-> "TSEL", dump_fn |-> "tsel_dump", alt_4cc |-> "0", max_version |-> 0, flags |-> 0],
    [box_4cc |-> "STRK", dump_fn |-> "strk_dump", alt_4cc |-> "0", max_version |-> 0, flags |-> 0],
    [box_4cc |-> "STRI", dump_fn |-> "stri_dump", alt_4cc |-> "0", max_version |-> 0, flags |-> 0],
    [box_4cc |-> "METX", dump_fn |-> "metx_dump", alt_4cc |-> "0", max_version |-> 0, flags |-> 0],
    [box_4cc |-> "METT", dump_fn |-> "metx_dump", alt_4cc |-> "0", max_version |-> 0, flags |-> 0],
    [box_4cc |-> "DIMS", dump_fn |-> "dims_dump", alt_4cc |-> "0", max_version |-> 0, flags |-> 0],
    [box_4cc |-> "DIMC", dump_fn |-> "dimC_dump", alt_4cc |-> "0", max_version |-> 0, flags |-> 0],
    [box_4cc |-> "DIST", dump_fn |-> "diST_dump", alt_4cc |-> "0", max_version |-> 0, flags |-> 0],
    [box_4cc |-> "AC3", dump_fn |-> "ac3_dump", alt_4cc |-> "0", max_version |-> 0, flags |-> 0],
    [box_4cc |-> "DAC3", dump_fn |-> "dac3_dump", alt_4cc |-> "0", max_version |-> 0, flags |-> 0],
    [box_4cc |-> "LSR1", dump_fn |-> "lsr1_dump", alt_4cc |-> "0", max_version |-> 0, flags |-> 0],
    [box_4cc |-> "LSRC", dump_fn |-> "lsrc_dump", alt_4cc |-> "0", max_version |-> 0, flags |-> 0],
    [box_4cc |-> "SIDX", dump_fn |-> "sidx_dump", alt_4cc |-> "0", max_version |-> 1, flags |-> 0],
    [box_4cc |-> "SSIX", dump_fn |-> "ssix_dump", alt_4cc |-> "0", max_version |-> 0, flags |-> 0],
    [box_4cc |-> "LEVA", dump_fn |-> "leva_dump", alt_4cc |-> "0", max_version |-> 0, flags |-> 0],
    [box_4cc |-> "PCRB", dump_fn |-> "pcrb_dump", alt_4cc |-> "0", max_version |-> 0, flags |-> 0],
    [box_4cc |-> "SENC", dump_fn |-> "senc_dump", alt_4cc |-> "0", max_version |-> 0, flags |-> 0],
    [box_4cc |-> "UUID", dump_fn |-> "uuid_ex_dump", alt_4cc |-> "0", max_version |-> 0, flags |-> 0],
    [box_4cc |-> "STXT", dump_fn |-> "metx_dump", alt_4cc |-> "0", max_version |-> 0, flags |-> 0],
    [box_4cc |-> "TXTC", dump_fn |-> "txtc_dump", alt_4cc |-> "0", max_version |-> 0, flags |-> 0],
    [box_4cc |-> "VTTC", dump_fn |-> "boxstring_dump", alt_4cc |-> "0", max_version |-> 0, flags |-> 0],
    [box_4cc |-> "CTIM", dump_fn |-> "boxstring_dump", alt_4cc |-> "0", max_version |-> 0, flags |-> 0],
    [box_4cc |-> "IDEN", dump_fn |-> "boxstring_dump", alt_4cc |-> "0", max_version |-> 0, flags |-> 0],
    [box_4cc |-> "STTG", dump_fn |-> "boxstring_dump", alt_4cc |-> "0", max_version |-> 0, flags |-> 0],
    [box_4cc |-> "PAYL", dump_fn |-> "boxstring_dump", alt_4cc |-> "0", max_version |-> 0, flags |-> 0],
    [box_4cc |-> "VTTA", dump_fn |-> "boxstring_dump", alt_4cc |-> "0", max_version |-> 0, flags |-> 0],
    [box_4cc |-> "VTCU", dump_fn |-> "vtcu_dump", alt_4cc |-> "0", max_version |-> 0, flags |-> 0],
    [box_4cc |-> "VTTE", dump_fn |-> "vtte_dump", alt_4cc |-> "0", max_version |-> 0, flags |-> 0],
    [box_4cc |-> "WVTT", dump_fn |-> "wvtt_dump", alt_4cc |-> "0", max_version |-> 0, flags |-> 0],
    [box_4cc |-> "STPP", dump_fn |-> "metx_dump", alt_4cc |-> "0", max_version |-> 0, flags |-> 0],
    [box_4cc |-> "SBTT", dump_fn |-> "metx_dump", alt_4cc |-> "0", max_version |-> 0, flags |-> 0],
    [box_4cc |-> "ADKM", dump_fn |-> "adkm_dump", alt_4cc |-> "0", max_version |-> 0, flags |-> 0],
    [box_4cc |-> "AHDR", dump_fn |-> "ahdr_dump", alt_4cc |-> "0", max_version |-> 0, flags |-> 0],
    [box_4cc |-> "ADAF", dump_fn |-> "adaf_dump", alt_4cc |-> "0", max_version |-> 0, flags |-> 0],
    [box_4cc |-> "APRM", dump_fn |-> "aprm_dump", alt_4cc |-> "0", max_version |-> 0, flags |-> 0],
    [box_4cc |-> "AEIB", dump_fn |-> "aeib_dump", alt_4cc |-> "0", max_version |-> 0, flags |-> 0],
    [box_4cc |-> "AKEY", dump_fn |-> "akey_dump", alt_4cc |-> "0", max_version |-> 0, flags |-> 0],
    [box_4cc |-> "FLXS", dump_fn |-> "flxs_dump", alt_4cc |-> "0", max_version |-> 0, flags |-> 0],
    [box_4cc |-> "ISPE", dump_fn |-> "ispe_dump", alt_4cc |-> "0", max_version |-> 0, flags |-> 0],
    [box_4cc |-> "COLR", dump_fn |-> "colr_dump", alt_4cc |-> "0", max_version |-> 0, flags |-> 0],
    [box_4cc |-> "PIXI", dump_fn |-> "pixi_dump", alt_4cc |-> "0", max_version |-> 0, flags |-> 0],
    [box_4cc |-> "RLOC", dump_fn |-> "rloc_dump", alt_4cc |-> "0", max_version |-> 0, flags |-> 0],
    [box_4cc |-> "IROT", dump_fn |-> "irot_dump", alt_4cc |-> "0", max_version |-> 0, flags |-> 0],
    [box_4cc |-> "IPCO", dump_fn |-> "ipco_dump", alt_4cc |-> "0", max_version |-> 0, flags |-> 0],
    [box_4cc |-> "IPRP", dump_fn |-> "iprp_dump", alt_4cc |-> "0", max_version |-> 0, flags |-> 0],
    [box_4cc |-> "IPMA", dump_fn |-> "ipma_dump", alt_4cc |-> "0", max_version |-> 0, flags |-> 0],
    [box_4cc |-> "GRPL", dump_fn |-> "grpl_dump", alt_4cc |-> "0", max_version |-> 0, flags |-> 0]
  >>

\* sizeof(defined_box_types) / sizeof(struct box_def)
\* a count of the primary types, each type once
gf_isom_get_num_supported_boxes_types ==
    Cardinality({defined_box_types[i].box_4cc : i \in 1..Len(defined_box_types)})

\* sizeof(defined_box_types) / sizeof(struct box_def)
gf_isom_get_num_supported_boxes == Len(defined_box_types)

\* index is the C index (from 0)
gf_isom_get_supported_box_type(idx) == defined_box_types[idx + 1].box_4cc

RegisteredTypes == {defined_box_types[i].box_4cc : i \in 1..Len(defined_box_types)}

(***************************************************************************)
(* Box nodes.  One record type stands for GF_Box and the structures        *)
(* derived from it; a field a structure does not have stays at zero.       *)
(***************************************************************************)
SlotNames == {"mediaHeader", "handler", "information",
              "InfoHeader", "dataInformation", "sampleTable", "dref", "info",
              "SampleDescription", "TimeToSample", "CompositionOffset",
              "CompositionToDecode", "SyncSample", "ShadowSync", "SampleToChunk",
              "SampleSize", "ChunkOffset", "DegradationPriority", "SampleDep",
              "PaddingBits", "Fragments",
              "iods", "meta", "mvhd", "mvex", "udta"}

\* the child lists of GF_SampleTableBox and of GF_MovieBox
ListNames == {"sub_samples", "sampleGroupsDescription", "sampleGroups",
              "sai_sizes", "sai_offsets", "trackList"}

\* a char pointer with the bytes it points to, or the NULL pointer
NoData == [null |-> TRUE, bytes |-> <<>>]
Data(bytes) == [null |-> FALSE, bytes |-> bytes]

\* gf_isom_box_new(boxType): a new, empty node of the given type
gf_isom_box_new(boxType) ==
    [type |-> boxType, size |-> 0, version |-> 0, flags |-> 0,
     other_boxes |-> <<>>,
     reference_type |-> Zero4CC, group_type |-> Zero4CC,
     original_4cc |-> Zero4CC, EntryType |-> Zero4CC,
     internal_4cc |-> Zero4CC, cfg_type |-> Zero4CC,
     grouping_type |-> Zero4CC, is_ec3 |-> 0,
     uuid |-> Zero4CC, sampleSize |-> 0,
     nb_entries |-> 0, table |-> FALSE, entries |-> <<>>,
     group_descriptions |-> <<>>,
     samp_aux_info |-> <<>>,
     location |-> NoData,
     slots |-> [s \in SlotNames |-> NULL],
     lists |-> [l \in ListNames |-> <<>>]]

(***************************************************************************)
(* The output stream.  A rendering context c carries what a render call    *)
(* reads and writes: the nodes, the stream, the log and the record of      *)
(* dispatches.                                                             *)
(***************************************************************************)
fprintf(c, tok) == [c EXCEPT !.trace = Append(@, tok)]

Comment(text, arg) == [k |-> "comment", text |-> text, arg |-> arg]
Attr(name, val) == [k |-> "attr", name |-> name, val |-> val]
Elem(name, attrs) == [k |-> "elem", name |-> name, attrs |-> attrs]

\* an opening marker written with its first attributes and not yet ended
StartTag(name, attrs) == [k |-> "start", name |-> name, attrs |-> attrs]

EmptyAttrs(names) == [j \in 1..Len(names) |-> <<names[j], <<>> >>]

Gt == [k |-> "gt"]
SelfGt == [k |-> "sgt"]
Close(name) == [k |-> "close", name |-> name]

GF_LOG(c, text, arg) == [c EXCEPT !.log = Append(@, <<text, arg>>)]

\* NullBoxErr that never names the expected type
NullBoxErr_unnamed(c, box_4cc) ==
    fprintf(c, Comment("ERROR: NULL Box Found", Zero4CC))

NullBoxErr(c, box_4cc) ==
    IF box_4cc # Zero4CC
    THEN fprintf(c, Comment("ERROR: NULL Box Found, expecting", box_4cc))
    ELSE fprintf(c, Comment("ERROR: NULL Box Found", Zero4CC))

BadTopBoxErr(c, a) ==
    fprintf(c, Comment("ERROR: Invalid Top-level Box Found", c.heap[a].type))

\* a->size > 0xFFFFFFFF
IsLargeSize(size) == size \div 65536 >= 65536

DumpBox(c, a, name) ==
    LET b == c.heap[a] IN
    fprintf(c, [k |-> "open", name |-> name,
                sizeAttr |-> IF IsLargeSize(b.size) THEN "LargeSize" ELSE "Size",
                size |-> b.size,
                idAttr |-> IF b.type = "UUID" THEN "UUID" ELSE "Type",
                id |-> IF b.type = "UUID" THEN b.uuid ELSE b.type])

gf_full_box_dump(c, a) ==
    fprintf(c, Attr("Version Flags", <<c.heap[a].version, c.heap[a].flags>>))

\* p->type = t left out
SetType_keep(c, a, t) == c

SetType(c, a, t) == [c EXCEPT !.heap[a].type = t]

Ret(c, e) == [c |-> c, e |-> e]

RECURSIVE gf_box_dump_ex(_, _, _)
RECURSIVE gf_box_dump(_, _)
RECURSIVE gf_box_array_dump(_, _)
RECURSIVE gf_box_dump_done(_, _, _)

(***************************************************************************)
(* The rows of a table a renderer prints: entries[0 .. nb_entries).        *)
(***************************************************************************)
\* Row i exists when the table pointer is set and the table has a row i;
\* reading a row that does not exist is an invalid read.
RowElem(p, i, name, attrs) ==
    IF p.table /\ i <= Len(p.entries)
    THEN Elem(name, [j \in 1..Len(attrs) |-> <<attrs[j], <<p.entries[i]>> >>])
    ELSE [k |-> "elem", name |-> name, fault |-> "invalid read"]

RECURSIVE PrintEntries(_, _, _, _, _)
PrintEntries(c, p, i, name, attrs) ==
    IF i > p.nb_entries THEN c
    ELSE PrintEntries(fprintf(c, RowElem(p, i, name, attrs)), p, i + 1, name, attrs)

Placeholder(name, attrs) == Elem(name, [j \in 1..Len(attrs) |-> <<attrs[j], <<>> >>])

(***************************************************************************)
(* Renderers that show the node under a substituted type                   *)
(***************************************************************************)
\* reftype_dump without line 651
reftype_dump_norestore(c, a) ==
    LET p == c.heap[a] IN
    IF p.reference_type = Zero4CC THEN Ret(c, GF_OK)
    ELSE
      LET c1 == SetType(c, a, p.reference_type)
          c2 == DumpBox(c1, a, "TrackReferenceTypeBox")
          c3 == fprintf(c2, Attr("Tracks", SubSeq(p.entries, 1, p.nb_entries)))
          c4 == fprintf(c3, Gt)
          c5 == gf_box_dump_done(c4, "TrackReferenceTypeBox", a)
      IN Ret(c5, GF_OK)

\* reftype_dump without the test of reference_type
reftype_dump_noskip(c, a) ==
    LET p == c.heap[a]
        c1 == SetType(c, a, p.reference_type)
        c2 == DumpBox(c1, a, "TrackReferenceTypeBox")
        c3 == fprintf(c2, Attr("Tracks", SubSeq(p.entries, 1, p.nb_entries)))
        c4 == fprintf(c3, Gt)
        c5 == gf_box_dump_done(c4, "TrackReferenceTypeBox", a)
        c6 == SetType(c5, a, "REFT")
    IN Ret(c6, GF_OK)

reftype_dump(c, a) ==
    LET p == c.heap[a] IN
    IF p.reference_type = Zero4CC THEN Ret(c, GF_OK)
    ELSE
      LET c1 == SetType(c, a, p.reference_type)
          c2 == DumpBox(c1, a, "TrackReferenceTypeBox")
          c3 == fprintf(c2, Attr("Tracks", SubSeq(p.entries, 1, p.nb_entries)))
          c4 == fprintf(c3, Gt)
          c5 == gf_box_dump_done(c4, "TrackReferenceTypeBox", a)
          c6 == SetType(c5, a, "REFT")
      IN Ret(c6, GF_OK)

\* ireftype_dump with the opening marker written before p->type is assigned
ireftype_dump_late(c, a) ==
    LET p == c.heap[a] IN
    IF p.reference_type = Zero4CC THEN Ret(c, GF_OK)
    ELSE
      LET s == IF p.reference_type # Zero4CC THEN p.reference_type ELSE ""
          boxname == s \o "ItemReferenceBox"
          c1 == DumpBox(c, a, boxname)
          c2 == SetType(c1, a, p.reference_type)
          c3 == fprintf(c2, Attr("from_item_id to_item_ids", SubSeq(p.entries, 1, p.nb_entries)))
          c4 == fprintf(c3, Gt)
          c5 == gf_box_dump_done(c4, boxname, a)
          c6 == SetType(c5, a, "REFI")
      IN Ret(c6, GF_OK)

ireftype_dump(c, a) ==
    LET p == c.heap[a] IN
    IF p.reference_type = Zero4CC THEN Ret(c, GF_OK)
    ELSE
      LET c1 == SetType(c, a, p.reference_type)
          s == IF c1.heap[a].type # Zero4CC THEN c1.heap[a].type ELSE ""
          boxname == s \o "ItemReferenceBox"
          c2 == DumpBox(c1, a, boxname)
          c3 == fprintf(c2, Attr("from_item_id to_item_ids", SubSeq(p.entries, 1, p.nb_entries)))
          c4 == fprintf(c3, Gt)
          c5 == gf_box_dump_done(c4, boxname, a)
          c6 == SetType(c5, a, "REFI")
      IN Ret(c6, GF_OK)

gnrm_dump(c, a) ==
    LET p == c.heap[a]
        c1 == DumpBox(c, a, "SampleDescriptionBox")
        c2 == fprintf(c1, Attr("DataReferenceIndex ExtensionDataSize", <<>>))
        c3 == fprintf(c2, Gt)
        c4 == SetType(c3, a, p.EntryType)
        c5 == SetType(c4, a, "GNRM")
        c6 == gf_box_dump_done(c5, "SampleDescriptionBox", a)
    IN Ret(c6, GF_OK)

gnrv_dump(c, a) ==
    LET p == c.heap[a]
        c1 == DumpBox(c, a, "VisualSampleDescriptionBox")
        c2 == fprintf(c1, Attr("DataReferenceIndex Version Revision Vendor", <<>>))
        c3 == fprintf(c2, Gt)
        c4 == SetType(c3, a, p.EntryType)
        c5 == SetType(c4, a, "GNRV")
        c6 == gf_box_dump_done(c5, "VisualSampleDescriptionBox", a)
    IN Ret(c6, GF_OK)

gnra_dump(c, a) ==
    LET p == c.heap[a]
        c1 == DumpBox(c, a, "AudioSampleDescriptionBox")
        c2 == fprintf(c1, Attr("DataReferenceIndex Version Revision Vendor", <<>>))
        c3 == fprintf(c2, Gt)
        c4 == SetType(c3, a, p.EntryType)
        c5 == SetType(c4, a, "GNRA")
        c6 == gf_box_dump_done(c5, "AudioSampleDescriptionBox", a)
    IN Ret(c6, GF_OK)

\* unkn_dump without the assignment that puts GF_ISOM_BOX_TYPE_UNKNOWN back
unkn_dump_norestore(c, a) ==
    LET u == c.heap[a]
        c1 == SetType(c, a, u.original_4cc)
        c2 == DumpBox(c1, a, "UnknownBox")
        c4 == fprintf(c2, Gt)
        c5 == fprintf(c4, Close("UnknownBox"))
    IN Ret(c5, GF_OK)

unkn_dump(c, a) ==
    LET u == c.heap[a]
        c1 == SetType(c, a, u.original_4cc)
        c2 == DumpBox(c1, a, "UnknownBox")
        c3 == SetType(c2, a, "UNKNOWN")
        c4 == fprintf(c3, Gt)
        c5 == fprintf(c4, Close("UnknownBox"))
    IN Ret(c5, GF_OK)

trgt_dump(c, a) ==
    LET ptr == c.heap[a]
        c1 == SetType(c, a, ptr.group_type)
        c2 == DumpBox(c1, a, "TrackGroupTypeBox")
        c3 == SetType(c2, a, "TRGT")
        c4 == gf_full_box_dump(c3, a)
        c5 == fprintf(c4, Attr("track_group_id", <<>>))
        c6 == fprintf(c5, Gt)
        c7 == gf_box_dump_done(c6, "TrackGroupTypeBox", a)
    IN Ret(c7, GF_OK)

dac3_dump(c, a) ==
    LET p == c.heap[a] IN
    IF p.is_ec3 # 0
    THEN LET c1 == SetType(c, a, "DEC3")
             c2 == DumpBox(c1, a, "EC3SpecificBox")
             c3 == SetType(c2, a, "DAC3")
             c4 == fprintf(c3, Attr("nb_streams data_rate", <<p.nb_entries>>))
             c5 == fprintf(c4, Gt)
             c6 == PrintEntries(c5, p, 1, "EC3StreamConfig", <<"fscod">>)
             c7 == gf_box_dump_done(c6, "EC3SpecificBox", a)
         IN Ret(c7, GF_OK)
    ELSE LET c1 == DumpBox(c, a, "AC3SpecificBox")
             c2 == fprintf(c1, Attr("fscod bsid bsmod acmod lfon bit_rate_code", <<>>))
             c3 == fprintf(c2, Gt)
             c4 == gf_box_dump_done(c3, "AC3SpecificBox", a)
         IN Ret(c4, GF_OK)

\* ac3_dump without the assignment that puts GF_ISOM_BOX_TYPE_AC3 back
ac3_dump_norestore(c, a) ==
    LET p == c.heap[a]
        name == IF p.is_ec3 # 0 THEN "EC3SampleEntryBox" ELSE "AC3SampleEntryBox"
        c1 == IF p.is_ec3 # 0 THEN SetType(c, a, "EC3") ELSE c
        c2 == DumpBox(c1, a, name)
        c4 == fprintf(c2, Attr("DataReferenceIndex SampleRate Channels BitsPerSample", <<>>))
        c5 == fprintf(c4, Gt)
        c6 == IF p.size # 0
              THEN gf_box_dump_ex(c5, p.slots["info"],
                                  IF p.is_ec3 # 0 THEN "DEC3" ELSE "DAC3").c
              ELSE c5
        c7 == gf_box_dump_done(c6, name, a)
    IN Ret(c7, GF_OK)

ac3_dump(c, a) ==
    LET p == c.heap[a]
        name == IF p.is_ec3 # 0 THEN "EC3SampleEntryBox" ELSE "AC3SampleEntryBox"
        c1 == IF p.is_ec3 # 0 THEN SetType(c, a, "EC3") ELSE c
        c2 == DumpBox(c1, a, name)
        c3 == IF p.is_ec3 # 0 THEN SetType(c2, a, "AC3") ELSE c2
        c4 == fprintf(c3, Attr("DataReferenceIndex SampleRate Channels BitsPerSample", <<>>))
        c5 == fprintf(c4, Gt)
        c6 == IF p.size # 0
              THEN gf_box_dump_ex(c5, p.slots["info"],
                                  IF p.is_ec3 # 0 THEN "DEC3" ELSE "DAC3").c
              ELSE c5
        c7 == gf_box_dump_done(c6, name, a)
    IN Ret(c7, GF_OK)

(***************************************************************************)
(* Leaf renderers                                                          *)
(***************************************************************************)
free_dump(c, a) ==
    LET c1 == DumpBox(c, a, IF c.heap[a].type = "FREE" THEN "FreeSpaceBox" ELSE "SkipBox")
        c2 == fprintf(c1, Attr("dataSize", <<>>))
        c3 == fprintf(c2, SelfGt)
    IN Ret(c3, GF_OK)

mdat_dump(c, a) ==
    LET c1 == DumpBox(c, a, "MediaDataBox")
        c2 == fprintf(c1, Attr("dataSize", <<>>))
        c3 == fprintf(c2, SelfGt)
    IN Ret(c3, GF_OK)

uuid_dump(c, a) ==
    LET c1 == DumpBox(c, a, "UnknownUUIDBox")
        c2 == fprintf(c1, Gt)
        c3 == fprintf(c2, Close("UnknownUUIDBox"))
    IN Ret(c3, GF_OK)

void_dump(c, a) ==
    LET c1 == DumpBox(c, a, "VoidBox")
        c2 == fprintf(c1, Gt)
        c3 == fprintf(c2, Close("VoidBox"))
    IN Ret(c3, GF_OK)

mdhd_dump(c, a) ==
    LET c1 == DumpBox(c, a, "MediaHeaderBox")
        c2 == gf_full_box_dump(c1, a)
        c3 == fprintf(c2, Attr("CreationTime ModificationTime TimeScale Duration LanguageCode", <<>>))
        c4 == fprintf(c3, Gt)
        c5 == gf_box_dump_done(c4, "MediaHeaderBox", a)
    IN Ret(c5, GF_OK)

hdlr_dump(c, a) ==
    LET c1 == DumpBox(c, a, "HandlerBox")
        c2 == gf_full_box_dump(c1, a)
        c3 == fprintf(c2, Attr("hdlrType Name reserved1 reserved2", <<>>))
        c4 == fprintf(c3, Gt)
        c5 == gf_box_dump_done(c4, "HandlerBox", a)
    IN Ret(c5, GF_OK)

(***************************************************************************)
(* Table renderers                                                         *)
(***************************************************************************)
ftyp_dump(c, a) ==
    LET p == c.heap[a]
        name == IF p.type = "FTYP" THEN "FileTypeBox" ELSE "SegmentTypeBox"
        c1 == DumpBox(c, a, name)
        c2 == fprintf(c1, Attr("MajorBrand MinorVersion", <<>>))
        c3 == fprintf(c2, Gt)
        c4 == PrintEntries(c3, p, 1, "BrandEntry", <<"AlternateBrand">>)
        c5 == IF p.type = Zero4CC
              THEN fprintf(c4, Elem("BrandEntry", << <<"AlternateBrand", <<"4CC">> >> >>))
              ELSE c4
        c6 == gf_box_dump_done(c5, name, a)
    IN Ret(c6, GF_OK)

\* A string is the sequence of its characters; what is written for it is
\* the sequence of the pieces written, a character or an entity each.
DumpDataString(data, dataLength) ==
    [i \in 1..dataLength |->
        CASE data[i] = "'" -> "&apos;"
          [] data[i] = "\"" -> "&quot;"
          [] data[i] = "&" -> "&amp;"
          [] data[i] = ">" -> "&gt;"
          [] data[i] = "<" -> "&lt;"
          [] OTHER -> data[i]]

dump_escape_string(name) ==
    [i \in 1..Len(name) |-> IF name[i] = "\"" THEN "&quot;" ELSE name[i]]

\* hours, minutes, seconds and milliseconds of dur / timescale
format_duration(dur, timescale) ==
    LET ms == (dur * 1000) \div timescale
    IN <<ms \div 3600000, (ms % 3600000) \div 60000, (ms % 60000) \div 1000, ms % 1000>>

chpl_dump(c, a) ==
    LET p == c.heap[a]
        c1 == DumpBox(c, a, "ChapterListBox")
        c2 == gf_full_box_dump(c1, a)
        c3 == fprintf(c2, Gt)
        c4 == IF p.size # 0
              THEN [c3 EXCEPT !.trace = @ \o
                      [i \in 1..Len(p.entries) |->
                          Elem("Chapter",
                               << <<"name", <<dump_escape_string(p.entries[i].name)>> >>,
                                  <<"startTime",
                                    <<format_duration(p.entries[i].start_time, 10000000)>> >> >>)]]
              ELSE fprintf(c3, Placeholder("Chapter", <<"name", "startTime">>))
        c5 == gf_box_dump_done(c4, "ChapterListBox", a)
    IN Ret(c5, GF_OK)

\* the shape shared by stts_dump, ctts_dump and stsc_dump
CountedTableDump(c, a, name, entry, attrs, what) ==
    LET p == c.heap[a]
        c1 == DumpBox(c, a, name)
        c2 == gf_full_box_dump(c1, a)
        c3 == fprintf(c2, Attr("EntryCount", <<p.nb_entries>>))
        c4 == fprintf(c3, Gt)
        c5 == PrintEntries(c4, p, 1, entry, attrs)
        c6 == IF p.size # 0
              THEN fprintf(c5, Comment(what, Zero4CC))
              ELSE fprintf(c5, Placeholder(entry, attrs))
        c7 == gf_box_dump_done(c6, name, a)
    IN Ret(c7, GF_OK)

stts_dump(c, a) ==
    CountedTableDump(c, a, "TimeToSampleBox", "TimeToSampleEntry",
                     <<"SampleDelta", "SampleCount">>, "counted samples in STTS entries")

ctts_dump(c, a) ==
    CountedTableDump(c, a, "CompositionOffsetBox", "CompositionOffsetEntry",
                     <<"CompositionOffset", "SampleCount">>, "counted samples in CTTS entries")

stsc_dump(c, a) ==
    CountedTableDump(c, a, "SampleToChunkBox", "SampleToChunkEntry",
                     <<"FirstChunk", "SamplesPerChunk", "SampleDescriptionIndex">>,
                     "counted samples in STSC entries (could be less than sample count)")

stsz_dump(c, a) ==
    LET p == c.heap[a]
        name == IF p.type = "STSZ" THEN "SampleSizeBox" ELSE "CompactSampleSizeBox"
        c1 == DumpBox(c, a, name)
        c2 == gf_full_box_dump(c1, a)
        c3 == fprintf(c2, Attr("SampleCount", <<p.nb_entries>>))
        c4 == IF p.type = "STSZ"
              THEN IF p.sampleSize # 0
                   THEN fprintf(c3, Attr("ConstantSampleSize", <<p.sampleSize>>))
                   ELSE c3
              ELSE fprintf(c3, Attr("SampleSizeBits", <<p.sampleSize>>))
        c5 == fprintf(c4, Gt)
        c6 == IF p.type # "STSZ" \/ p.sampleSize = 0
              THEN IF ~p.table /\ p.size # 0
                   THEN fprintf(c5, Comment("WARNING: No Sample Size indications", Zero4CC))
                   ELSE PrintEntries(c5, p, 1, "SampleSizeEntry", <<"Size">>)
              ELSE c5
        c7 == IF p.size = 0
              THEN fprintf(c6, Placeholder("SampleSizeEntry", <<"Size">>))
              ELSE c6
        c8 == gf_box_dump_done(c7, name, a)
    IN Ret(c8, GF_OK)

stco_dump(c, a) ==
    LET p == c.heap[a]
        c1 == DumpBox(c, a, "ChunkOffsetBox")
        c2 == gf_full_box_dump(c1, a)
        c3 == fprintf(c2, Attr("EntryCount", <<p.nb_entries>>))
        c4 == fprintf(c3, Gt)
        c5 == IF ~p.table /\ p.size # 0
              THEN fprintf(c4, Comment("Warning: No Chunk Offsets indications", Zero4CC))
              ELSE PrintEntries(c4, p, 1, "ChunkEntry", <<"offset">>)
        c6 == IF p.size = 0
              THEN fprintf(c5, Placeholder("ChunkEntry", <<"offset">>))
              ELSE c5
        c7 == gf_box_dump_done(c6, "ChunkOffsetBox", a)
    IN Ret(c7, GF_OK)

\* the shape shared by stss_dump, stdp_dump and co64_dump; warning is what is
\* written when the table is absent and the size is not 0
TableDump(c, a, name, entry, attrs, warning) ==
    LET p == c.heap[a]
        c1 == DumpBox(c, a, name)
        c2 == gf_full_box_dump(c1, a)
        c3 == fprintf(c2, Attr("EntryCount", <<p.nb_entries>>))
        c4 == fprintf(c3, Gt)
        c5 == IF ~p.table /\ p.size # 0
              THEN fprintf(c4, warning)
              ELSE PrintEntries(c4, p, 1, entry, attrs)
        c6 == IF p.size = 0
              THEN fprintf(c5, Placeholder(entry, attrs))
              ELSE c5
        c7 == gf_box_dump_done(c6, name, a)
    IN Ret(c7, GF_OK)

stss_dump(c, a) ==
    TableDump(c, a, "SyncSampleBox", "SyncSampleEntry", <<"sampleNumber">>,
              Comment("Warning: No Key Frames indications", Zero4CC))

stdp_dump(c, a) ==
    TableDump(c, a, "DegradationPriorityBox", "DegradationPriorityEntry",
              <<"DegradationPriority">>,
              Comment("Warning: No Degradation Priority indications", Zero4CC))

\* the warning of co64_dump begins a comment and does not end it
co64_dump(c, a) ==
    TableDump(c, a, "ChunkLargeOffsetBox", "ChunkOffsetEntry", <<"offset">>,
              [k |-> "comment_start", text |-> " Warning: No Chunk Offsets indications/"])

DependencyName(v) ==
    CASE v = 0 -> "unknown" [] v = 1 -> "yes" [] v = 2 -> "no" [] OTHER -> "RESERVED"

\* the loop of sdtp_dump over sample_info
RECURSIVE SdtpEntries(_, _, _)
SdtpEntries(c, p, i) ==
    IF i > p.nb_entries THEN c
    ELSE IF ~(p.table /\ i <= Len(p.entries))
    THEN SdtpEntries(fprintf(c, RowElem(p, i, "SampleDependencyEntry", <<>>)), p, i + 1)
    ELSE
      LET flag == p.entries[i]
          c1 == fprintf(c, StartTag("SampleDependencyEntry", <<>>))
          c2 == fprintf(c1, Attr("dependsOnOther", <<DependencyName((flag \div 16) % 4)>>))
          c3 == fprintf(c2, Attr("dependedOn", <<DependencyName((flag \div 4) % 4)>>))
          c4 == fprintf(c3, Attr("hasRedundancy", <<DependencyName(flag % 4)>>))
      IN SdtpEntries(fprintf(c4, SelfGt), p, i + 1)

sdtp_dump(c, a) ==
    LET p == c.heap[a]
        c1 == DumpBox(c, a, "SampleDependencyTypeBox")
        c2 == gf_full_box_dump(c1, a)
        c3 == fprintf(c2, Attr("SampleCount", <<p.nb_entries>>))
        c4 == fprintf(c3, Gt)
        c5 == IF ~p.table /\ p.size # 0
              THEN fprintf(c4, Comment("Warning: No sample dependencies indications", Zero4CC))
              ELSE SdtpEntries(c4, p, 1)
        c6 == IF p.size = 0
              THEN fprintf(c5, Elem("SampleDependencyEntry",
                       << <<"dependsOnOther", <<"unknown|yes|no|RESERVED">> >>,
                          <<"dependedOn", <<"unknown|yes|no|RESERVED">> >>,
                          <<"hasRedundancy", <<"unknown|yes|no|RESERVED">> >> >>))
              ELSE c5
        c7 == gf_box_dump_done(c6, "SampleDependencyTypeBox", a)
    IN Ret(c7, GF_OK)

sbgp_dump(c, a) ==
    IF a = NULL THEN Ret(c, GF_BAD_PARAM)
    ELSE
    LET ptr == c.heap[a]
        c1 == DumpBox(c, a, "SampleGroupBox")
        c2 == gf_full_box_dump(c1, a)
        c3 == fprintf(c2, Attr("grouping_type", <<ptr.grouping_type>>))
        c4 == IF ptr.version = 1
              THEN fprintf(c3, Attr("grouping_type_parameter", <<>>))
              ELSE c3
        c5 == fprintf(c4, Gt)
        c6 == PrintEntries(c5, ptr, 1, "SampleGroupBoxEntry",
                           <<"sample_count", "group_description_index">>)
        c7 == IF ptr.size = 0
              THEN fprintf(c6, Placeholder("SampleGroupBoxEntry",
                                           <<"sample_count", "group_description_index">>))
              ELSE c6
        c8 == gf_box_dump_done(c7, "SampleGroupBox", a)
    IN Ret(c8, GF_OK)

(***************************************************************************)
(* Containers with named child slots                                       *)
(***************************************************************************)
\* a slot shown only if the node in the slot has a size
DumpSlotIfSize_childsize(c, a, slot, box_4cc) ==
    LET s == c.heap[a].slots[slot]
    IN IF s # NULL /\ c.heap[s].size # 0
       THEN gf_box_dump_ex(c, s, box_4cc).c
       ELSE c

\* if (p->size) gf_box_dump_ex(p->slot, trace, box_4cc);
DumpSlotIfSize(c, a, slot, box_4cc) ==
    LET p == c.heap[a] IN
    IF p.size # 0
    THEN gf_box_dump_ex(c, p.slots[slot], box_4cc).c
    ELSE c

moov_dump(c, a) ==
    LET p == c.heap[a]
        c1 == DumpBox(c, a, "MovieBox")
        c2 == fprintf(c1, Gt)
        c3 == IF p.slots["iods"] # NULL THEN gf_box_dump(c2, p.slots["iods"]).c ELSE c2
        c4 == IF p.slots["meta"] # NULL THEN gf_box_dump(c3, p.slots["meta"]).c ELSE c3
        c5 == DumpSlotIfSize(c4, a, "mvhd", "MVHD")
        c6 == IF p.slots["mvex"] # NULL THEN gf_box_dump(c5, p.slots["mvex"]).c ELSE c5
        c7 == gf_box_array_dump(c6, p.lists["trackList"]).c
        c8 == IF p.slots["udta"] # NULL THEN gf_box_dump(c7, p.slots["udta"]).c ELSE c7
        c9 == gf_box_dump_done(c8, "MovieBox", a)
    IN Ret(c9, GF_OK)

mdia_dump(c, a) ==
    LET c1 == DumpBox(c, a, "MediaBox")
        c2 == fprintf(c1, Gt)
        c3 == DumpSlotIfSize(c2, a, "mediaHeader", "MDHD")
        c4 == DumpSlotIfSize(c3, a, "handler", "HDLR")
        c5 == DumpSlotIfSize(c4, a, "information", "MINF")
        c6 == gf_box_dump_done(c5, "MediaBox", a)
    IN Ret(c6, GF_OK)

minf_dump(c, a) ==
    LET c1 == DumpBox(c, a, "MediaInformationBox")
        c2 == fprintf(c1, Gt)
        c3 == DumpSlotIfSize(c2, a, "InfoHeader", "NMHD")
        c4 == DumpSlotIfSize(c3, a, "dataInformation", "DINF")
        c5 == DumpSlotIfSize(c4, a, "sampleTable", "STBL")
        c6 == gf_box_dump_done(c5, "MediaInformationBox", a)
    IN Ret(c6, GF_OK)

dinf_dump(c, a) ==
    LET c1 == DumpBox(c, a, "DataInformationBox")
        c2 == fprintf(c1, Gt)
        c3 == DumpSlotIfSize(c2, a, "dref", "DREF")
        c4 == gf_box_dump_done(c3, "DataInformationBox", a)
    IN Ret(c4, GF_OK)

\* the body of stbl_dump between the opening marker and gf_box_dump_done:
\* slots shown under if (p->size), slots and lists shown if they are set
stbl_children ==
    << [if |-> "size", slot |-> "SampleDescription", box_4cc |-> "STSD"],
       [if |-> "size", slot |-> "TimeToSample", box_4cc |-> "STTS"],
       [if |-> "slot", slot |-> "CompositionOffset"],
       [if |-> "slot", slot |-> "CompositionToDecode"],
       [if |-> "slot", slot |-> "SyncSample"],
       [if |-> "slot", slot |-> "ShadowSync"],
       [if |-> "size", slot |-> "SampleToChunk", box_4cc |-> "STSC"],
       [if |-> "size", slot |-> "SampleSize", box_4cc |-> "STSZ"],
       [if |-> "size", slot |-> "ChunkOffset", box_4cc |-> "STCO"],
       [if |-> "slot", slot |-> "DegradationPriority"],
       [if |-> "slot", slot |-> "SampleDep"],
       [if |-> "slot", slot |-> "PaddingBits"],
       [if |-> "slot", slot |-> "Fragments"],
       [if |-> "list", list |-> "sub_samples"],
       [if |-> "list", list |-> "sampleGroupsDescription"],
       [if |-> "list", list |-> "sampleGroups"],
       [if |-> "list", list |-> "sai_sizes"],
       [if |-> "list", list |-> "sai_offsets"] >>

\* the children of the node a that the steps 1..n of stbl_children show, as
\* the arguments (node, box_4cc) of their dump calls
RECURSIVE StblShown(_, _)
StblShown(p, n) ==
    IF n = 0 THEN <<>>
    ELSE LET st == stbl_children[n] IN
         StblShown(p, n - 1) \o
         (CASE st.if = "size" -> IF p.size # 0 THEN <<<<p.slots[st.slot], st.box_4cc>>>>
                                 ELSE <<>>
            [] st.if = "slot" -> IF p.slots[st.slot] # NULL
                                 THEN <<<<p.slots[st.slot], Zero4CC>>>> ELSE <<>>
            [] st.if = "list" -> [j \in 1..Len(p.lists[st.list]) |->
                                     <<p.lists[st.list][j], Zero4CC>>])

RECURSIVE DumpEach(_, _, _)
DumpEach(c, shown, i) ==
    IF i > Len(shown) THEN c
    ELSE DumpEach(gf_box_dump_ex(c, shown[i][1], shown[i][2]).c, shown, i + 1)

stbl_dump(c, a) ==
    LET c1 == DumpBox(c, a, "SampleTableBox")
        c2 == fprintf(c1, Gt)
        c3 == DumpEach(c2, StblShown(c.heap[a], Len(stbl_children)), 1)
        c4 == gf_box_dump_done(c3, "SampleTableBox", a)
    IN Ret(c4, GF_OK)

(***************************************************************************)
(* Renderers whose body is only the opening marker, the attributes of the  *)
(* node and gf_box_dump_done; name stands for the element name and the     *)
(* attribute list of the renderer.                                         *)
(***************************************************************************)
plain_dump(c, a, name) ==
    LET c1 == DumpBox(c, a, name)
        c2 == gf_full_box_dump(c1, a)
        c3 == fprintf(c2, Gt)
        c4 == gf_box_dump_done(c3, name, a)
    IN Ret(c4, GF_OK)

url_dump(c, a) ==
    LET p == c.heap[a]
        c1 == DumpBox(c, a, "URLDataEntryBox")
        c2 == gf_full_box_dump(c1, a)
        c3 == IF ~p.location.null
              THEN fprintf(fprintf(c2, Attr("URL", p.location.bytes)), Gt)
              ELSE LET c4 == fprintf(c2, Gt)
                   IN IF p.size # 0
                      THEN IF p.flags % 2 = 0
                           THEN fprintf(c4, Comment("ERROR: No location indicated", Zero4CC))
                           ELSE fprintf(c4, Comment("Data is contained in the movie file",
                                                    Zero4CC))
                      ELSE c4
        c5 == gf_box_dump_done(c3, "URLDataEntryBox", a)
    IN Ret(c5, GF_OK)

nmhd_dump(c, a) == plain_dump(c, a, "MPEGMediaHeaderBox")

dref_dump(c, a) == plain_dump(c, a, "DataReferenceBox")

stsd_dump(c, a) == plain_dump(c, a, "SampleDescriptionBox")

\* boxstring_dump, vtcu_dump, vtte_dump, wvtt_dump: defined outside box_dump.c
ExternRenderers == {"boxstring_dump", "vtcu_dump", "vtte_dump", "wvtt_dump"}

extern_dump(c, a, name) == plain_dump(c, a, name)

\* DumpBox(a, name, trace); fprintf of the fields of the payload, which the
\* node record does not carry; fprintf(trace, ">\n"); gf_box_dump_done
payload_dump(c, a, name) ==
    LET c1 == DumpBox(c, a, name)
        c2 == fprintf(c1, Gt)
        c3 == gf_box_dump_done(c2, name, a)
    IN Ret(c3, GF_OK)

gppc_dump(c, a) ==
    LET p == c.heap[a] IN
    CASE p.cfg_type \in {"SUBTYPE_3GP_AMR", "SUBTYPE_3GP_AMR_WB"} -> payload_dump(c, a, "AMRConfigurationBox")
      [] p.cfg_type = "SUBTYPE_3GP_EVRC" -> payload_dump(c, a, "EVRCConfigurationBox")
      [] p.cfg_type = "SUBTYPE_3GP_QCELP" -> payload_dump(c, a, "QCELPConfigurationBox")
      [] p.cfg_type = "SUBTYPE_3GP_SMV" -> payload_dump(c, a, "SMVConfigurationBox")
      [] p.cfg_type = "SUBTYPE_3GP_H263" -> payload_dump(c, a, "H263ConfigurationBox")
      [] OTHER -> Ret(c, GF_OK)

\* one GF_CENCSampleAuxInfo of piff_psec_dump: nothing for a NULL entry of
\* the list and for an IV of length 0; the start tag, which is ended only
\* under flags & 0x2, and the closing marker otherwise
PsecSample(c, flags, cenc_sample) ==
    IF cenc_sample.null THEN c
    ELSE IF cenc_sample.IV = "" THEN c
    ELSE LET c1 == fprintf(c, StartTag("PIFFSampleEncryptionEntry",
                                       << <<"IV", <<cenc_sample.IV>> >> >>))
             c2 == IF (flags \div 2) % 2 = 1
                   THEN LET c3 == fprintf(c1, Attr("SubsampleCount",
                                                   <<cenc_sample.subsample_count>>))
                            c4 == fprintf(c3, Gt)
                        IN PrintEntries(c4, [nb_entries |-> cenc_sample.subsample_count,
                                             table |-> TRUE,
                                             entries |-> [j \in 1..cenc_sample.subsample_count |-> j]],
                                        1, "PIFFSubSampleEncryptionEntry",
                                        <<"NumClearBytes", "NumEncryptedBytes">>)
                   ELSE c1
         IN fprintf(c2, Close("PIFFSampleEncryptionEntry"))

RECURSIVE PsecSamples(_, _, _, _)
PsecSamples(c, flags, list, i) ==
    IF i > Len(list) THEN c
    ELSE PsecSamples(PsecSample(c, flags, list[i]), flags, list, i + 1)

piff_psec_dump(c, a) ==
    IF a = NULL THEN Ret(c, GF_BAD_PARAM)
    ELSE
    LET ptr == c.heap[a]
        c1 == DumpBox(c, a, "PIFFSampleEncryptionBox")
        c2 == fprintf(c1, Attr("sampleCount", <<Len(ptr.samp_aux_info)>>))
        c3 == IF ptr.flags % 2 = 1
              THEN fprintf(c2, Attr("AlgorithmID IV_size KID", <<>>))
              ELSE c2
        c4 == fprintf(c3, Gt)
        c5 == PsecSamples(c4, ptr.flags, ptr.samp_aux_info, 1)
        c6 == IF ptr.size = 0
              THEN LET c7 == fprintf(c5, StartTag("PIFFSampleEncryptionEntry",
                                                  EmptyAttrs(<<"IV", "SubsampleCount">>)))
                       c8 == fprintf(c7, Gt)
                       c9 == fprintf(c8, Placeholder("PIFFSubSampleEncryptionEntry",
                                                     <<"NumClearBytes", "NumEncryptedBytes">>))
                   IN fprintf(c9, Close("PIFFSampleEncryptionEntry"))
              ELSE c5
        c10 == gf_box_dump_done(c6, "PIFFSampleEncryptionBox", a)
    IN Ret(c10, GF_OK)

uuid_ex_dump(c, a) ==
    LET t == c.heap[a].internal_4cc IN
    CASE t = "UUID_TENC" -> plain_dump(c, a, "PIFFTrackEncryptionBox")
      [] t = "UUID_PSEC" -> piff_psec_dump(c, a)
      [] t = "UUID_PSSH" -> plain_dump(c, a, "PIFFProtectionSystemHeaderBox")
      [] t = "UUID_TFXD" -> payload_dump(c, a, "MSSTimeExtensionBox")
      [] t \in {"UUID_MSSM", "UUID_TFRF", "UNKNOWN"} -> uuid_dump(c, a)
      [] OTHER -> Ret(c, GF_ISOM_INVALID_FILE)

(***************************************************************************)
(* Bit readers gf_bs_read_int and gf_bs_read_u16.  A blob is a record      *)
(* [null, bytes]; a reader is the bytes and the number of bytes it may     *)
(* read.  The position of the reader, in bits, is the argument pos of      *)
(* every read: a read of nBits bits at pos leaves the reader at            *)
(* pos + nBits.  Bits are taken MSB first; a bit asked for past the end    *)
(* reads as 0.                                                             *)
(***************************************************************************)
RECURSIVE Pow2(_)
Pow2(n) == IF n = 0 THEN 1 ELSE 2 * Pow2(n - 1)

gf_bs_new(data, data_size) == [bytes |-> data.bytes, size |-> data_size]

BitAt(bs, k) ==
    IF k \div 8 < bs.size /\ k \div 8 < Len(bs.bytes)
    THEN (bs.bytes[(k \div 8) + 1] \div Pow2(7 - (k % 8))) % 2
    ELSE 0

RECURSIVE BitsValue(_, _, _)
BitsValue(bs, k, n) ==
    IF n = 0 THEN 0
    ELSE BitAt(bs, k) * Pow2(n - 1) + BitsValue(bs, k + 1, n - 1)

gf_bs_read_int(bs, pos, nBits) == BitsValue(bs, pos, nBits)

gf_bs_read_u16(bs, pos) == gf_bs_read_int(bs, pos, 16)

\* gf_bs_del of a reader left at pos: what the reader did is kept with the
\* rendering context
gf_bs_del(c, bs, pos) == [c EXCEPT !.overread = @ \/ (pos > 8 * bs.size),
                                   !.bitsRead = pos]

\* the TileRegionDependency loop of trif_dump, which ends with the closing
\* marker and gf_bs_del
RECURSIVE TrifDeps(_, _, _, _)
TrifDeps(c, bs, pos, count) ==
    IF count = 0
    THEN gf_bs_del(fprintf(c, Close("TileRegionGroupEntry")), bs, pos)
    ELSE TrifDeps(fprintf(c, Elem("TileRegionDependency",
                                  << <<"tileID", <<gf_bs_read_u16(bs, pos)>> >> >>)),
                  bs, pos + 16, count - 1)

\* Two reads that are arguments of one fprintf are made in an order the
\* compiler chooses: c.rtl tells whether the last argument is read first.
ReadPair(c, bs, pos) ==
    IF c.rtl
    THEN <<gf_bs_read_u16(bs, pos + 16), gf_bs_read_u16(bs, pos)>>
    ELSE <<gf_bs_read_u16(bs, pos), gf_bs_read_u16(bs, pos + 16)>>

trif_dump(c, data, data_size) ==
    IF data.null
    THEN LET c1 == fprintf(c, StartTag("TileRegionGroupEntry",
                      EmptyAttrs(<<"ID", "tileGroup", "independent", "full_picture",
                                   "filter_disabled", "x", "y", "w", "h">>)))
             c2 == fprintf(c1, Gt)
             c3 == fprintf(c2, Placeholder("TileRegionDependency", <<"tileID">>))
         IN fprintf(c3, Close("TileRegionGroupEntry"))
    ELSE
      LET bs == gf_bs_new(data, data_size)
          id == gf_bs_read_u16(bs, 0)
          tile_group == gf_bs_read_int(bs, 16, 1)
          c1 == fprintf(c, StartTag("TileRegionGroupEntry",
                                    << <<"ID", <<id>> >>, <<"tileGroup", <<tile_group>> >> >>))
      IN IF tile_group # 0
         THEN LET independent == gf_bs_read_int(bs, 17, 2)
                  full_picture == gf_bs_read_int(bs, 19, 1)
                  filter_disabled == gf_bs_read_int(bs, 20, 1)
                  has_dep == gf_bs_read_int(bs, 21, 1)
                  \* gf_bs_read_int(bs, 2) leaves the reader at bit 24
                  c2 == fprintf(c1, Attr("independent full_picture filter_disabled",
                                         <<independent, full_picture, filter_disabled>>))
                  c3 == IF full_picture = 0
                        THEN fprintf(c2, Attr("x y", ReadPair(c, bs, 24)))
                        ELSE c2
                  wh == IF full_picture = 0 THEN 56 ELSE 24
                  c4 == fprintf(c3, Attr("w h", ReadPair(c, bs, wh)))
              IN IF has_dep = 0
                 THEN gf_bs_del(fprintf(c4, SelfGt), bs, wh + 32)
                 ELSE TrifDeps(fprintf(c4, Gt), bs, wh + 48,
                               gf_bs_read_u16(bs, wh + 32))
         ELSE gf_bs_del(c1, bs, 17)

\* the NALUMapEntry loop of nalm_dump, which ends with gf_bs_del and the
\* closing marker
\* an iteration that writes nothing and leaves entry_count as it is
NalmEntry_idle(c, bs, pos, entry_count, rle, large_size) ==
    [c |-> c, pos |-> pos, entry_count |-> entry_count]

\* one iteration of the while loop of nalm_dump: the context, the position
\* of the reader and entry_count after it
NalmEntry(c, bs, pos, entry_count, rle, large_size) ==
    LET n == IF rle = 0 THEN 0 ELSE IF large_size # 0 THEN 16 ELSE 8
        c1 == fprintf(c, StartTag("NALUMapEntry", <<>>))
        c2 == IF rle # 0
              THEN fprintf(c1, Attr("NALU_startNumber", <<gf_bs_read_int(bs, pos, n)>>))
              ELSE c1
        c3 == fprintf(c2, Attr("groupID", <<gf_bs_read_u16(bs, pos + n)>>))
    IN [c |-> fprintf(c3, SelfGt), pos |-> pos + n + 16, entry_count |-> entry_count - 1]

RECURSIVE NalmEntries(_, _, _, _, _, _)
NalmEntries(c, bs, pos, entry_count, rle, large_size) ==
    IF entry_count = 0
    THEN fprintf(gf_bs_del(c, bs, pos), Close("NALUMap"))
    ELSE LET r == NalmEntry(c, bs, pos, entry_count, rle, large_size)
         IN NalmEntries(r.c, bs, r.pos, r.entry_count, rle, large_size)

\* nalm_dump with the bits of rle and large_size read in the other order
nalm_dump_swapped(c, data, data_size) ==
    IF data.null
    THEN LET c1 == fprintf(c, StartTag("NALUMap", EmptyAttrs(<<"rle", "large_size">>)))
             c2 == fprintf(c1, Gt)
             c3 == fprintf(c2, Placeholder("NALUMapEntry", <<"NALU_startNumber", "groupID">>))
         IN fprintf(c3, Close("NALUMap"))
    ELSE
      LET bs == gf_bs_new(data, data_size)
          rle == gf_bs_read_int(bs, 6, 1)
          large_size == gf_bs_read_int(bs, 7, 1)
          n == IF large_size # 0 THEN 16 ELSE 8
          entry_count == gf_bs_read_int(bs, 8, n)
          c1 == fprintf(c, StartTag("NALUMap",
                                    << <<"rle", <<rle>> >>, <<"large_size", <<large_size>> >> >>))
          c2 == fprintf(c1, Gt)
      IN NalmEntries(c2, bs, 8 + n, entry_count, rle, large_size)

nalm_dump(c, data, data_size) ==
    IF data.null
    THEN LET c1 == fprintf(c, StartTag("NALUMap", EmptyAttrs(<<"rle", "large_size">>)))
             c2 == fprintf(c1, Gt)
             c3 == fprintf(c2, Placeholder("NALUMapEntry", <<"NALU_startNumber", "groupID">>))
         IN fprintf(c3, Close("NALUMap"))
    ELSE
      LET bs == gf_bs_new(data, data_size)
          \* gf_bs_read_int(bs, 6) leaves the reader at bit 6
          large_size == gf_bs_read_int(bs, 6, 1)
          rle == gf_bs_read_int(bs, 7, 1)
          n == IF large_size # 0 THEN 16 ELSE 8
          entry_count == gf_bs_read_int(bs, 8, n)
          c1 == fprintf(c, StartTag("NALUMap",
                                    << <<"rle", <<rle>> >>, <<"large_size", <<large_size>> >> >>))
          c2 == fprintf(c1, Gt)
      IN NalmEntries(c2, bs, 8 + n, entry_count, rle, large_size)

\* the element sgpd_dump prints for one group description of a grouping
\* type it decodes itself
SgpdEntryName(grouping_type) ==
    CASE grouping_type = "SAMPLE_GROUP_ROLL" -> "RollRecoveryEntry"
      [] grouping_type = "SAMPLE_GROUP_RAP" -> "VisualRandomAccessEntry"
      [] grouping_type = "SAMPLE_GROUP_SEIG" -> "CENCSampleEncryptionGroupEntry"
      [] grouping_type = "SAMPLE_GROUP_OINF" -> "OperatingPointsInformation"
      [] grouping_type = "SAMPLE_GROUP_LINF" -> "LayerInformation"
      [] OTHER -> "DefaultSampleGroupDescriptionEntry"

SgpdEntry(c, grouping_type, entry) ==
    CASE grouping_type = "SAMPLE_GROUP_TRIF" -> trif_dump(c, entry.data, entry.length)
      [] grouping_type = "SAMPLE_GROUP_NALM" -> nalm_dump(c, entry.data, entry.length)
      [] OTHER -> fprintf(c, Elem(SgpdEntryName(grouping_type), << <<"data", <<entry.length>> >> >>))

RECURSIVE SgpdEntries(_, _, _, _)
SgpdEntries(c, grouping_type, list, i) ==
    IF i > Len(list) THEN c
    ELSE SgpdEntries(SgpdEntry(c, grouping_type, list[i]), grouping_type, list, i + 1)

\* sgpd_dump without the test of ptr->size of line 4769
sgpd_dump_nosize(c, a) ==
    IF a = NULL THEN Ret(c, GF_BAD_PARAM)
    ELSE
    LET ptr == c.heap[a]
        c1 == DumpBox(c, a, "SampleGroupDescriptionBox")
        c2 == gf_full_box_dump(c1, a)
        c3 == fprintf(c2, Attr("grouping_type", <<ptr.grouping_type>>))
        c4 == IF ptr.version = 1 THEN fprintf(c3, Attr("default_length", <<>>)) ELSE c3
        c5 == fprintf(c4, Gt)
        c6 == SgpdEntries(c5, ptr.grouping_type, ptr.group_descriptions, 1)
        c8 == gf_box_dump_done(c6, "SampleGroupDescriptionBox", a)
    IN Ret(c8, GF_OK)

sgpd_dump(c, a) ==
    IF a = NULL THEN Ret(c, GF_BAD_PARAM)
    ELSE
    LET ptr == c.heap[a]
        c1 == DumpBox(c, a, "SampleGroupDescriptionBox")
        c2 == gf_full_box_dump(c1, a)
        c3 == fprintf(c2, Attr("grouping_type", <<ptr.grouping_type>>))
        c4 == IF ptr.version = 1 THEN fprintf(c3, Attr("default_length", <<>>)) ELSE c3
        c5 == fprintf(c4, Gt)
        c6 == SgpdEntries(c5, ptr.grouping_type, ptr.group_descriptions, 1)
        c7 == IF ptr.size = 0
              THEN CASE ptr.grouping_type = "SAMPLE_GROUP_TRIF" -> trif_dump(c6, NoData, 0)
                     [] ptr.grouping_type = "SAMPLE_GROUP_NALM" -> nalm_dump(c6, NoData, 0)
                     [] OTHER -> fprintf(c6, Placeholder(SgpdEntryName(ptr.grouping_type), <<"data">>))
              ELSE c6
        c8 == gf_box_dump_done(c7, "SampleGroupDescriptionBox", a)
    IN Ret(c8, GF_OK)
\* defined_box_types[i].dump_fn(a, trace)
CallDumpFn(fn, c, a) ==
    CASE fn = "reftype_dump" -> reftype_dump(c, a)
      [] fn = "ireftype_dump" -> ireftype_dump(c, a)
      [] fn = "gnrm_dump" -> gnrm_dump(c, a)
      [] fn = "gnrv_dump" -> gnrv_dump(c, a)
      [] fn = "gnra_dump" -> gnra_dump(c, a)
      [] fn = "unkn_dump" -> unkn_dump(c, a)
      [] fn = "trgt_dump" -> trgt_dump(c, a)
      [] fn = "ac3_dump" -> ac3_dump(c, a)
      [] fn = "dac3_dump" -> dac3_dump(c, a)
      [] fn = "free_dump" -> free_dump(c, a)
      [] fn = "mdat_dump" -> mdat_dump(c, a)
      [] fn = "void_dump" -> void_dump(c, a)
      [] fn = "uuid_ex_dump" -> uuid_ex_dump(c, a)
      [] fn = "mdhd_dump" -> mdhd_dump(c, a)
      [] fn = "hdlr_dump" -> hdlr_dump(c, a)
      [] fn = "ftyp_dump" -> ftyp_dump(c, a)
      [] fn = "chpl_dump" -> chpl_dump(c, a)
      [] fn = "stts_dump" -> stts_dump(c, a)
      [] fn = "ctts_dump" -> ctts_dump(c, a)
      [] fn = "stsc_dump" -> stsc_dump(c, a)
      [] fn = "stsz_dump" -> stsz_dump(c, a)
      [] fn = "stco_dump" -> stco_dump(c, a)
      [] fn = "stss_dump" -> stss_dump(c, a)
      [] fn = "stdp_dump" -> stdp_dump(c, a)
      [] fn = "sdtp_dump" -> sdtp_dump(c, a)
      [] fn = "co64_dump" -> co64_dump(c, a)
      [] fn = "sbgp_dump" -> sbgp_dump(c, a)
      [] fn = "sgpd_dump" -> sgpd_dump(c, a)
      [] fn = "moov_dump" -> moov_dump(c, a)
      [] fn = "mdia_dump" -> mdia_dump(c, a)
      [] fn = "minf_dump" -> minf_dump(c, a)
      [] fn = "dinf_dump" -> dinf_dump(c, a)
      [] fn = "stbl_dump" -> stbl_dump(c, a)
      [] fn = "url_dump" -> url_dump(c, a)
      [] fn = "nmhd_dump" -> nmhd_dump(c, a)
      [] fn = "dref_dump" -> dref_dump(c, a)
      [] fn = "stsd_dump" -> stsd_dump(c, a)
      [] fn = "gppc_dump" -> gppc_dump(c, a)
      [] fn \in ExternRenderers -> extern_dump(c, a, fn)
      [] OTHER -> plain_dump(c, a, fn)

(***************************************************************************)
(* Dispatch and tree walk                                                  *)
(***************************************************************************)
\* the loop of gf_box_dump_ex, which returns at the first i whose box_4cc is
\* type: that i, or 0 when the loop runs to the end
\* the scan that keeps going after a match, so that the last match wins
FindBoxDef_last(type) ==
    LET matches == {i \in 1..gf_isom_get_num_supported_boxes :
                        defined_box_types[i].box_4cc = type}
    IN IF matches = {} THEN 0
       ELSE CHOOSE i \in matches : \A j \in matches : i >= j

FindBoxDef(type) ==
    LET matches == {i \in 1..gf_isom_get_num_supported_boxes :
                        defined_box_types[i].box_4cc = type}
    IN IF matches = {} THEN 0
       ELSE CHOOSE i \in matches : \A j \in matches : i <= j

gf_box_dump_ex(c, a, box_4cc) ==
    IF a = NULL THEN Ret(NullBoxErr(c, box_4cc), GF_OK)
    ELSE
      LET type == c.heap[a].type
          i == FindBoxDef(type)
      IN IF i # 0
         THEN CallDumpFn(defined_box_types[i].dump_fn,
                         [c EXCEPT !.calls = Append(@, [a |-> a, type |-> type, idx |-> i,
                                                        fn |-> defined_box_types[i].dump_fn])],
                         a)
         ELSE Ret(GF_LOG(c, "[isom] trying to dump box not registered", type),
                  GF_ISOM_INVALID_FILE)

gf_box_dump(c, a) == gf_box_dump_ex(c, a, Zero4CC)

\* gf_list_enum(list, &i): the item at *i, with *i advanced, or NULL at the end
gf_list_enum(list, i) ==
    IF i > Len(list) THEN [item |-> NULL, i |-> i] ELSE [item |-> list[i], i |-> i + 1]

\* while ((a = gf_list_enum(list, &i))) gf_box_dump(a, trace);
RECURSIVE BoxArrayLoop(_, _, _)
BoxArrayLoop(c, list, i) ==
    IF i > Len(list) \/ list[i] = NULL THEN c
    ELSE BoxArrayLoop(gf_box_dump(c, list[i]).c, list, i + 1)

gf_box_array_dump(c, list) == Ret(BoxArrayLoop(c, list, 1), GF_OK)

gf_box_dump_done(c, name, ptr) ==
    LET c1 == IF ptr # NULL /\ c.heap[ptr].other_boxes # <<>>
              THEN gf_box_array_dump(c, c.heap[ptr].other_boxes).c
              ELSE c
    IN IF name # "" THEN fprintf(c1, Close(name)) ELSE c1

TopLevelTypes ==
    {"FTYP", "MOOV", "MDAT", "FREE", "META", "SKIP", "MOOF", "STYP", "SIDX",
     "SSIX", "PCRB", "AFRA", "ABST", "MFRA", "PRFT", "UUID"}

\* the top-level loop with the diagnostic gating the rendering
RECURSIVE TopBoxesLoop_gating(_, _, _)
TopBoxesLoop_gating(c, list, i) ==
    IF i > Len(list) \/ list[i] = NULL THEN c
    ELSE IF c.heap[list[i]].type \in TopLevelTypes
         THEN TopBoxesLoop_gating(gf_box_dump(c, list[i]).c, list, i + 1)
         ELSE TopBoxesLoop_gating(BadTopBoxErr(c, list[i]), list, i + 1)

RECURSIVE TopBoxesLoop(_, _, _)
TopBoxesLoop(c, list, i) ==
    IF i > Len(list) \/ list[i] = NULL THEN c
    ELSE LET c1 == IF c.heap[list[i]].type \in TopLevelTypes THEN c
                   ELSE BadTopBoxErr(c, list[i])
         IN TopBoxesLoop(gf_box_dump(c1, list[i]).c, list, i + 1)

\* gf_isom_dump without the test of its arguments
gf_isom_dump_unchecked(c, mov, out, list) ==
    LET c1 == fprintf(c, [k |-> "xmldecl"])
        c2 == fprintf(c1, Comment("MP4Box dump trace", Zero4CC))
        c3 == fprintf(c2, [k |-> "root", name |-> "IsoMediaFile"])
        c4 == TopBoxesLoop(c3, list, 1)
        c5 == fprintf(c4, Close("IsoMediaFile"))
    IN Ret(c5, GF_OK)

\* mov and out tell whether the file and the output sink are non-null
gf_isom_dump(c, mov, out, list) ==
    IF ~mov \/ ~out THEN Ret(c, GF_BAD_PARAM)
    ELSE
      LET c1 == fprintf(c, [k |-> "xmldecl"])
          c2 == fprintf(c1, Comment("MP4Box dump trace", Zero4CC))
          c3 == fprintf(c2, [k |-> "root", name |-> "IsoMediaFile"])
          c4 == TopBoxesLoop(c3, list, 1)
          c5 == fprintf(c4, Close("IsoMediaFile"))
      IN Ret(c5, GF_OK)

\* the node with the flags of the entry left out
SupportedBoxNode_noflags(idx) ==
    LET def == defined_box_types[idx + 1]
        b0 == gf_isom_box_new(def.box_4cc)
    IN IF def.max_version # 0 THEN [b0 EXCEPT !.version = def.max_version] ELSE b0

\* the node gf_isom_dump_supported_box makes for the entry idx and passes to
\* gf_box_dump
SupportedBoxNode(idx) ==
    LET def == defined_box_types[idx + 1]
        b0 == gf_isom_box_new(def.box_4cc)
        b1 == IF def.alt_4cc # Zero4CC
              THEN CASE b0.type = "REFT" -> [b0 EXCEPT !.reference_type = def.alt_4cc]
                     [] b0.type = "REFI" -> [b0 EXCEPT !.reference_type = def.alt_4cc]
                     [] b0.type = "TRGT" -> [b0 EXCEPT !.group_type = def.alt_4cc]
                     [] b0.type = "SGPD" -> [b0 EXCEPT !.grouping_type = def.alt_4cc]
                     [] OTHER -> b0
              ELSE b0
        b2 == IF def.max_version # 0 THEN [b1 EXCEPT !.version = def.max_version] ELSE b1
    IN IF def.flags # 0 THEN [b2 EXCEPT !.flags = def.flags] ELSE b2

\* idx is the C index (from 0)
gf_isom_dump_supported_box(c, idx) ==
    LET a == Len(c.heap) + 1
        r == gf_box_dump([c EXCEPT !.heap = Append(@, SupportedBoxNode(idx))], a)
    IN Ret([r.c EXCEPT !.heap = SubSeq(@, 1, a - 1)], r.e)

(***************************************************************************)
(* Operations.  Every operation starts with an empty output stream and     *)
(* leaves in the variables what it wrote and returned.  On a tree, a dump  *)
(* is followed by the same dump once more: no dump keeps anything from the *)
(* dump before it but the tree itself.                                     *)
(***************************************************************************)
Ctx(h) == [heap |-> h, trace |-> <<>>, log |-> <<>>, calls |-> <<>>,
           overread |-> FALSE, bitsRead |-> 0, rtl |-> rtl]

\* whether the operation o is the operation that was called last
SameOp(o) == op.name = o.name /\ op.a = o.a /\ op.arg = o.arg

Finish(r, o) ==
    /\ heap' = r.c.heap
    /\ trace' = r.c.trace
    /\ log' = r.c.log
    /\ calls' = r.c.calls
    /\ overread' = r.c.overread
    /\ bitsRead' = r.c.bitsRead
    /\ ret' = r.e
    /\ op' = [o EXCEPT !.again = SameOp(o)]
    /\ pre' = heap
    /\ prevTrace' = IF SameOp(o) THEN trace ELSE <<>>
    /\ UNCHANGED <<TopBoxes, rtl, threads>>

Op(name, a, arg) == [name |-> name, a |-> a, arg |-> arg, again |-> FALSE]

FirstOrRepeat(o) == op.name \in {"init", "parse"} \/ SameOp(o)

\* gf_box_dump(a, trace) on a node of the tree
BoxDump(a) ==
    /\ a \in 1..Len(heap)
    /\ FirstOrRepeat(Op("gf_box_dump", a, Zero4CC))
    /\ Finish(gf_box_dump(Ctx(heap), a), Op("gf_box_dump", a, Zero4CC))

\* gf_box_dump_ex(NULL, trace, box_4cc)
BoxDumpNull(box_4cc) ==
    /\ FirstOrRepeat(Op("gf_box_dump_ex", NULL, box_4cc))
    /\ Finish(gf_box_dump_ex(Ctx(heap), NULL, box_4cc), Op("gf_box_dump_ex", NULL, box_4cc))

\* gf_box_array_dump on the list of top boxes (a = 0) or on the other_boxes of a
BoxArrayDump(a) ==
    /\ a \in 0..Len(heap)
    /\ LET list == IF a = 0 THEN TopBoxes ELSE heap[a].other_boxes
       IN /\ list # <<>>
          /\ FirstOrRepeat(Op("gf_box_array_dump", a, Zero4CC))
          /\ Finish(gf_box_array_dump(Ctx(heap), list), Op("gf_box_array_dump", a, Zero4CC))

\* gf_isom_dump(mov, trace)
IsomDump(mov, out) ==
    LET o == Op("gf_isom_dump", 0, IF mov THEN (IF out THEN "mov,trace" ELSE "mov,NULL")
                                   ELSE (IF out THEN "NULL,trace" ELSE "NULL,NULL"))
    IN /\ FirstOrRepeat(o)
       /\ Finish(gf_isom_dump(Ctx(heap), mov, out, TopBoxes), o)

\* gf_isom_dump_supported_box(idx, trace)
DumpSupportedBox(idx) ==
    /\ idx \in 0..(gf_isom_get_num_supported_boxes - 1)
    /\ Finish(gf_isom_dump_supported_box(Ctx(heap), idx), Op("gf_isom_dump_supported_box", idx, Zero4CC))

(***************************************************************************)
(* The parser, which builds the tree before it is dumped.                  *)
(***************************************************************************)
MaxBoxes == 2

Box(type, size) == [gf_isom_box_new(type) EXCEPT !.size = size]

ParsedBoxes ==
    { [Box("REFT", 12) EXCEPT !.reference_type = Zero4CC],
      [Box("REFT", 12) EXCEPT !.reference_type = "REF_HINT", !.nb_entries = 1,
                              !.entries = <<1>>, !.table = TRUE],
      [Box("REFI", 12) EXCEPT !.reference_type = Zero4CC],
      [Box("REFI", 12) EXCEPT !.reference_type = "REF_TBAS"],
      [Box("TRGT", 12) EXCEPT !.group_type = "msrc"],
      [Box("UNKNOWN", 12) EXCEPT !.original_4cc = "abcd"],
      [Box("GNRM", 12) EXCEPT !.EntryType = "mp4x"],
      [Box("GNRV", 12) EXCEPT !.EntryType = "mp4x"],
      [Box("GNRA", 12) EXCEPT !.EntryType = "mp4x"],
      [Box("AC3", 12) EXCEPT !.is_ec3 = 1],
      [Box("DAC3", 12) EXCEPT !.is_ec3 = 1],
      Box("zzzz", 12),
      Box("FREE", 12),
      Box("FTYP", 12),
      Box("MDIA", 12),
      Box("MDIA", 0) }

SlotOwner == [mediaHeader |-> "MDIA", handler |-> "MDIA", information |-> "MDIA",
              InfoHeader |-> "MINF", dataInformation |-> "MINF", sampleTable |-> "MINF",
              dref |-> "DINF", info |-> "AC3"]

SlotBoxes ==
    [mediaHeader |-> {Box("MDHD", 12)}, handler |-> {Box("HDLR", 12)},
     information |-> {Box("MINF", 12)}, InfoHeader |-> {Box("NMHD", 12)},
     dataInformation |-> {Box("DINF", 12)}, sampleTable |-> {},
     dref |-> {Box("DREF", 12)},
     info |-> {[Box("DAC3", 12) EXCEPT !.is_ec3 = 1]}]

Parsing == op.name \in {"init", "parse"} /\ Len(heap) < MaxBoxes

Parsed == /\ op' = Op("parse", Len(heap) + 1, Zero4CC)
          /\ UNCHANGED <<trace, log, ret, calls, pre, prevTrace, overread, bitsRead, rtl,
                          threads>>

AddTopBox(b) ==
    /\ Parsing
    /\ heap' = Append(heap, b)
    /\ TopBoxes' = Append(TopBoxes, Len(heap) + 1)
    /\ Parsed

AddOtherBox(p, b) ==
    /\ Parsing
    /\ p \in 1..Len(heap)
    /\ heap' = Append([heap EXCEPT ![p].other_boxes = Append(@, Len(heap) + 1)], b)
    /\ UNCHANGED TopBoxes
    /\ Parsed

AddSlotBox(p, s, b) ==
    /\ Parsing
    /\ p \in 1..Len(heap)
    /\ heap[p].type = SlotOwner[s]
    /\ heap[p].slots[s] = NULL
    /\ b \in SlotBoxes[s]
    /\ heap' = Append([heap EXCEPT ![p].slots[s] = Len(heap) + 1], b)
    /\ UNCHANGED TopBoxes
    /\ Parsed

Idle == /\ trace = <<>> /\ log = <<>> /\ ret = GF_OK /\ calls = <<>>
        /\ op = Op("init", 0, Zero4CC) /\ pre = <<>> /\ prevTrace = <<>>
        /\ overread = FALSE /\ bitsRead = 0 /\ threads = <<>>

Init == /\ heap = <<>> /\ TopBoxes = <<>> /\ rtl = FALSE /\ Idle

NullTypes == {Zero4CC, "MVHD", "DAC3"}

Next ==
    \/ \E b \in ParsedBoxes : AddTopBox(b)
    \/ \E p \in 1..Len(heap), b \in ParsedBoxes : AddOtherBox(p, b)
    \/ \E p \in 1..Len(heap), s \in DOMAIN SlotOwner : \E b \in SlotBoxes[s] : AddSlotBox(p, s, b)
    \/ \E a \in 1..Len(heap) : BoxDump(a)
    \/ \E t \in NullTypes : BoxDumpNull(t)
    \/ \E a \in 0..Len(heap) : BoxArrayDump(a)
    \/ \E mov \in BOOLEAN, out \in BOOLEAN : IsomDump(mov, out)

Spec == Init /\ [][Next]_vars

(***************************************************************************)
(* Properties of the tree dumps (specification Spec)                       *)
(***************************************************************************)
DumpOps == {"gf_box_dump", "gf_box_dump_ex", "gf_box_array_dump", "gf_isom_dump"}

\* C1: after any dump call returns (gf_box_dump / gf_box_dump_ex on a node,
\* with the nested calls it makes on children and overflow boxes, early
\* returns and error returns included), the type field of every node of the
\* tree equals its value before the call.
C1_TypeRestored ==
    op.name \in DumpOps =>
        /\ Len(heap) = Len(pre)
        /\ \A a \in 1..Len(heap) : heap[a].type = pre[a].type

\* a dump of a node shown under its original_4cc, reached through the
\* overflow list of a node that is itself shown under a substituted type
C1_Witness ==
    /\ op.name = "gf_box_dump"
    /\ Len(calls) = 2
    /\ calls[1].fn \in {"reftype_dump", "ireftype_dump", "trgt_dump", "gnrm_dump",
                        "gnrv_dump", "gnra_dump", "ac3_dump", "dac3_dump"}
    /\ calls[2].fn = "unkn_dump"
    /\ \E k \in 1..Len(trace) : trace[k].k = "open" /\ trace[k].id = "abcd"
    /\ heap[calls[2].a].type = "UNKNOWN"

\* C4: gf_box_dump_ex on a null node writes exactly one comment, which names
\* box_4cc when box_4cc is not zero and names no type when it is zero, calls
\* no renderer and returns GF_OK.
C4_NullNode ==
    (op.name = "gf_box_dump_ex" /\ op.a = NULL) =>
        /\ Len(trace) = 1
        /\ trace[1].k = "comment"
        /\ trace[1].arg = op.arg
        /\ (op.arg = Zero4CC) = (trace[1].text = "ERROR: NULL Box Found")
        /\ calls = <<>>
        /\ log = <<>>
        /\ ret = GF_OK

C4_Witness ==
    /\ op.name = "gf_box_dump_ex" /\ op.a = NULL /\ op.arg = "MVHD"
    /\ trace = <<[k |-> "comment", text |-> "ERROR: NULL Box Found, expecting", arg |-> "MVHD"]>>

\* C7: gf_box_dump called twice in a row on the same node, with no write to
\* the tree in between, writes the same output both times.
C7_SameOutputTwice ==
    (op.name = "gf_box_dump" /\ op.again) => trace = prevTrace

\* the second dump of a node that ac3_dump shows as EC3
C7_Witness ==
    /\ op.name = "gf_box_dump" /\ op.again
    /\ calls # <<>> /\ calls[1].fn = "ac3_dump"
    /\ trace # <<>> /\ trace[1].k = "open" /\ trace[1].id = "EC3"
    /\ prevTrace = trace

\* C10: gf_isom_dump renders every box of TopBoxes in list order; a box whose
\* type is outside the allow-list of top-level types gets one "Invalid
\* Top-level Box" comment right before its own rendering and is rendered all
\* the same, and a box whose type is in the allow-list gets no such comment.
C10_TopLevelLoop ==
    (op.name = "gf_isom_dump" /\ op.arg = "mov,trace") =>
        LET Rendering(a) == gf_box_dump(Ctx(pre), a).c.trace
            Diagnostic(a) ==
                IF pre[a].type \in {"FTYP", "MOOV", "MDAT", "FREE", "META", "SKIP", "MOOF",
                                    "STYP", "SIDX", "SSIX", "PCRB", "AFRA", "ABST", "MFRA",
                                    "PRFT", "UUID"}
                THEN <<>>
                ELSE <<[k |-> "comment", text |-> "ERROR: Invalid Top-level Box Found",
                        arg |-> pre[a].type]>>
            RECURSIVE Boxes(_)
            Boxes(i) == IF i > Len(TopBoxes) THEN <<>>
                        ELSE Diagnostic(TopBoxes[i]) \o Rendering(TopBoxes[i]) \o Boxes(i + 1)
        IN /\ Len(trace) >= 4
           /\ SubSeq(trace, 4, Len(trace) - 1) = Boxes(1)
           /\ trace[Len(trace)] = [k |-> "close", name |-> "IsoMediaFile"]
           /\ ret = GF_OK

\* a file whose first top-level box is legal there and whose second is not:
\* the second is announced by the comment and rendered, the first only rendered
C10_Witness ==
    /\ op.name = "gf_isom_dump" /\ op.arg = "mov,trace"
    /\ Len(TopBoxes) = 2
    /\ heap[TopBoxes[1]].type = "FREE"
    /\ heap[TopBoxes[2]].type = "UNKNOWN"
    /\ Len(trace) = 11
    /\ trace[4].k = "open" /\ trace[4].name = "FreeSpaceBox"
    /\ trace[7] = [k |-> "comment", text |-> "ERROR: Invalid Top-level Box Found",
                   arg |-> "UNKNOWN"]
    /\ trace[8].k = "open" /\ trace[8].name = "UnknownBox"

\* C3: when a list of sibling boxes holds a node whose type has no entry in
\* defined_box_types, dumping the list (gf_box_array_dump, or the top-level
\* loop of gf_isom_dump) writes a diagnostic for that node into the output
\* stream, renders no body for it and still renders every sibling after it.
C3_UnregisteredDiagnosed ==
    LET list == IF op.name = "gf_isom_dump" \/ op.a = 0 THEN TopBoxes
                ELSE heap[op.a].other_boxes
        Unregistered(i) ==
            \A j \in 1..Len(defined_box_types) :
                defined_box_types[j].box_4cc # heap[list[i]].type
    IN ((op.name = "gf_box_array_dump") \/ (op.name = "gf_isom_dump" /\ op.arg = "mov,trace")) =>
        \A i \in 1..Len(list) :
            Unregistered(i) =>
                /\ \E k \in 1..Len(trace) :
                       trace[k].k = "comment" /\ trace[k].arg = heap[list[i]].type
                /\ \A k \in 1..Len(calls) : calls[k].a # list[i]
                /\ \A j \in (i + 1)..Len(list) :
                       ~Unregistered(j) => \E k \in 1..Len(calls) : calls[k].a = list[j]

(***************************************************************************)
(* The synthesizer: gf_isom_dump_supported_box called for any index of the *)
(* table, any number of times (specification SpecSynth)                    *)
(***************************************************************************)
NextSynth == \E idx \in 0..(gf_isom_get_num_supported_boxes - 1) : DumpSupportedBox(idx)

SpecSynth == Init /\ [][NextSynth]_vars

\* C2: gf_box_dump_ex on a non-null node invokes exactly one renderer, the
\* dump_fn of the first entry of defined_box_types, in declaration order,
\* whose box_4cc is the node's type, whatever the alt_4cc, max_version and
\* flags of the entries; an entry that comes after another entry with the
\* same box_4cc is never the one selected.
C2_FirstMatch ==
    op.name = "gf_isom_dump_supported_box" =>
        LET type == defined_box_types[op.a + 1].box_4cc
        IN /\ Len(calls) = 1
           /\ calls[1].type = type
           /\ calls[1].idx \in 1..(op.a + 1)
           /\ defined_box_types[calls[1].idx].box_4cc = type
           /\ \A j \in 1..(calls[1].idx - 1) : defined_box_types[j].box_4cc # type
           /\ calls[1].fn = defined_box_types[calls[1].idx].dump_fn

\* the node made for a later entry of a type that has several entries is
\* dispatched through the first entry of that type
C2_Witness ==
    /\ op.name = "gf_isom_dump_supported_box"
    /\ Len(calls) = 1
    /\ calls[1].idx < op.a + 1
    /\ defined_box_types[op.a + 1].alt_4cc # defined_box_types[calls[1].idx].alt_4cc
    /\ defined_box_types[op.a + 1].box_4cc = "SGPD"
    /\ defined_box_types[op.a + 1].max_version # defined_box_types[calls[1].idx].max_version

\* C5: for every index i of the table, the output of
\* gf_isom_dump_supported_box(i) contains the primary type code of entry i
\* and, when entry i has a secondary discriminator, the textual form of that
\* discriminator.
C5_SynthShowsEntry ==
    op.name = "gf_isom_dump_supported_box" =>
        LET def == defined_box_types[op.a + 1]
            Shows(code) ==
                \E k \in 1..Len(trace) :
                    \/ trace[k].k = "open" /\ trace[k].id = code
                    \/ trace[k].k = "attr" /\ trace[k].val = <<code>>
        IN /\ Shows(def.box_4cc)
           /\ def.alt_4cc # Zero4CC => Shows(def.alt_4cc)

\* C6: a renderer that emits one sub-element per table entry (stts_dump,
\* ctts_dump, stsc_dump, stsz_dump, stco_dump, chpl_dump, ftyp_dump,
\* sbgp_dump), given a node whose size is 0, emits exactly one placeholder
\* sub-element, with the element name of a real entry and empty values:
\* never zero such elements and never one per table entry.
C6_OnePlaceholder ==
    LET EntryName == [stts_dump |-> "TimeToSampleEntry",
                      ctts_dump |-> "CompositionOffsetEntry",
                      stsc_dump |-> "SampleToChunkEntry",
                      stsz_dump |-> "SampleSizeEntry",
                      stco_dump |-> "ChunkEntry",
                      chpl_dump |-> "Chapter",
                      ftyp_dump |-> "BrandEntry",
                      sbgp_dump |-> "SampleGroupBoxEntry"]
    IN (/\ op.name = "gf_isom_dump_supported_box"
        /\ calls # <<>>
        /\ calls[1].fn \in DOMAIN EntryName
        /\ trace # <<>> /\ trace[1].k = "open" /\ trace[1].size = 0) =>
           /\ Cardinality({k \in 1..Len(trace) :
                             /\ trace[k].k = "elem"
                             /\ trace[k].name = EntryName[calls[1].fn]}) = 1
           /\ \A k \in 1..Len(trace) :
                  (trace[k].k = "elem" /\ trace[k].name = EntryName[calls[1].fn]) =>
                      \A j \in 1..Len(trace[k].attrs) : trace[k].attrs[j][2] = <<>>

(***************************************************************************)
(* The bit decoders: gf_box_dump of a SampleGroupDescriptionBox that holds *)
(* one TRIF or NALM entry (specification SpecBits).  The blob of the entry *)
(* is laid out from chosen field values; its length is the length of that  *)
(* layout or one byte less.  layout is not a field of the entry: it keeps  *)
(* the length of the layout the blob was cut from.                         *)
(***************************************************************************)
MaxEntries == 2

U16(v) == <<v \div 256, v % 256>>

RECURSIVE NalmBlobEntries(_, _, _)
NalmBlobEntries(i, large_size, rle) ==
    IF i = 0 THEN <<>>
    ELSE NalmBlobEntries(i - 1, large_size, rle)
         \o (IF rle = 0 THEN <<>> ELSE IF large_size = 0 THEN <<i>> ELSE U16(i))
         \o U16(i + 1)

NalmBlob(large_size, rle, entry_count) ==
    <<2 * large_size + rle>>
    \o (IF large_size = 0 THEN <<entry_count>> ELSE U16(entry_count))
    \o NalmBlobEntries(entry_count, large_size, rle)

RECURSIVE TrifBlobDeps(_)
TrifBlobDeps(i) == IF i = 0 THEN <<>> ELSE TrifBlobDeps(i - 1) \o U16(i)

\* count < 0 stands for has_dep = 0
TrifBlob(tile_group, full_picture, count) ==
    U16(7)
    \o <<128 * tile_group + 32 + 16 * full_picture + (IF count >= 0 THEN 4 ELSE 0)>>
    \o (IF tile_group = 0 THEN <<>>
        ELSE (IF full_picture = 0 THEN U16(1) \o U16(2) ELSE <<>>)
             \o U16(3) \o U16(4)
             \o (IF count >= 0 THEN U16(count) \o TrifBlobDeps(count) ELSE <<>>))

Blobs ==
    [SAMPLE_GROUP_NALM |->
        {NalmBlob(l, r, n) : l \in 0..1, r \in 0..1, n \in 0..MaxEntries},
     SAMPLE_GROUP_TRIF |->
        {TrifBlob(0, 0, -1)}
        \cup {TrifBlob(1, f, n) : f \in 0..1, n \in -1..MaxEntries}]

SgpdWith(grouping_type, bytes, length) ==
    [Box("SGPD", 24 + length) EXCEPT
        !.grouping_type = grouping_type,
        !.group_descriptions = <<[data |-> Data(SubSeq(bytes, 1, length)),
                                  length |-> length, layout |-> Len(bytes)]>>]

InitBits ==
    /\ \E g \in DOMAIN Blobs : \E bytes \in Blobs[g] :
          \E length \in {Len(bytes) - 1, Len(bytes)} :
              heap = <<SgpdWith(g, bytes, length)>>
    /\ TopBoxes = <<>>
    /\ rtl \in BOOLEAN
    /\ Idle

NextBits == BoxDump(1)

SpecBits == InitBits /\ [][NextBits]_vars

\* C8: trif_dump and nalm_dump, given a blob exactly as long as the minimal
\* layout its fields declare, decode it without any diagnostic; given a blob
\* one byte shorter, they emit a diagnostic and stop before reading past the
\* end of the blob.
C8_BitDecoderBoundary ==
    (op.name = "gf_box_dump" /\ calls # <<>> /\ calls[1].fn = "sgpd_dump") =>
        LET e == heap[op.a].group_descriptions[1]
            Diagnosed == \/ log # <<>>
                         \/ \E k \in 1..Len(trace) : trace[k].k = "comment"
        IN /\ e.length = e.layout => (~Diagnosed /\ ~overread)
           /\ e.length = e.layout - 1 => (Diagnosed /\ ~overread)

(***************************************************************************)
(* Containers with three named slots and one child in other_boxes          *)
(* (specification SpecContainer).  The parser has filled the three slots   *)
(* with nodes of the sizes drawn from SlotSizes; the size of the container *)
(* is its header and its children.                                         *)
(***************************************************************************)
SlotSizes == {0, 5, 10}

\* the slots of mdia_dump and minf_dump, in the order of their calls of
\* gf_box_dump_ex, with the box_4cc passed for each
ContainerSlots ==
    [MDIA |-> <<[slot |-> "mediaHeader", type |-> "MDHD"],
                [slot |-> "handler", type |-> "HDLR"],
                [slot |-> "information", type |-> "MINF"]>>,
     MINF |-> <<[slot |-> "InfoHeader", type |-> "NMHD"],
                [slot |-> "dataInformation", type |-> "DINF"],
                [slot |-> "sampleTable", type |-> "STBL"]>>]

OverflowBoxes ==
    { Box("FREE", 12),
      [Box("UNKNOWN", 12) EXCEPT !.original_4cc = "abcd"],
      [Box("STTS", 12) EXCEPT !.nb_entries = 1, !.entries = <<1>>, !.table = TRUE] }

InitContainer ==
    /\ \E k \in DOMAIN ContainerSlots : \E s \in [1..3 -> SlotSizes] :
       \E ov \in OverflowBoxes :
          heap = << [Box(k, 8 + s[1] + s[2] + s[3] + ov.size) EXCEPT
                        !.slots[ContainerSlots[k][1].slot] = 2,
                        !.slots[ContainerSlots[k][2].slot] = 3,
                        !.slots[ContainerSlots[k][3].slot] = 4,
                        !.other_boxes = <<5>>],
                    Box(ContainerSlots[k][1].type, s[1]),
                    Box(ContainerSlots[k][2].type, s[2]),
                    Box(ContainerSlots[k][3].type, s[3]),
                    ov >>
    /\ TopBoxes = <<1>>
    /\ rtl = FALSE
    /\ Idle

NextContainer == \E a \in 1..Len(heap) : BoxDump(a)

SpecContainer == InitContainer /\ [][NextContainer]_vars

\* C9: a container node with three named slots and one overflow child
\* renders, in exactly this order: its opening marker, slot 1, slot 2, slot 3
\* (each as the complete element of the node in the slot, carrying that
\* node's own size: 0 for the size-0 slot, which is shown in its placeholder
\* form and not skipped), the overflow child, then the container's closing
\* marker.
C9_SlotOrder ==
    (op.name = "gf_box_dump" /\ op.a = 1 /\ pre[1].type \in DOMAIN ContainerSlots) =>
        LET p == pre[1]
            sl == ContainerSlots[p.type]
            name == [MDIA |-> "MediaBox", MINF |-> "MediaInformationBox"][p.type]
        IN /\ ret = GF_OK
           /\ heap = pre
           /\ \A i \in 1..3 :
                 \A t \in {gf_box_dump(Ctx(pre), p.slots[sl[i].slot]).c.trace} :
                    /\ t[1].k = "open"
                    /\ t[1].id = sl[i].type
                    /\ t[1].size = pre[p.slots[sl[i].slot]].size
                    /\ t[Len(t)] = Close(t[1].name)
           /\ trace = << [k |-> "open", name |-> name, sizeAttr |-> "Size",
                          size |-> p.size, idAttr |-> "Type", id |-> p.type],
                         Gt >>
                      \o gf_box_dump(Ctx(pre), p.slots[sl[1].slot]).c.trace
                      \o gf_box_dump(Ctx(pre), p.slots[sl[2].slot]).c.trace
                      \o gf_box_dump(Ctx(pre), p.slots[sl[3].slot]).c.trace
                      \o gf_box_dump(Ctx(pre), p.other_boxes[1]).c.trace
                      \o << Close(name) >>

\* the container of the scenario has been dumped: slots of sizes 10, 0 and 5
C9_Witness ==
    /\ op.name = "gf_box_dump" /\ op.a = 1
    /\ pre[1].type = "MDIA"
    /\ pre[pre[1].slots["mediaHeader"]].size = 10
    /\ pre[pre[1].slots["handler"]].size = 0
    /\ pre[pre[1].slots["information"]].size = 5
    /\ pre[1].other_boxes = <<5>>
    /\ \E j \in 1..Len(trace) :
          trace[j].k = "open" /\ trace[j].id = "HDLR" /\ trace[j].size = 0
    /\ trace[Len(trace)] = Close("MediaBox")

(***************************************************************************)
(* The accessors of the registry (specification SpecRegistry): ret is the  *)
(* value the call returned, op.a the index it was given.                   *)
(***************************************************************************)
\* gf_isom_get_num_supported_boxes()
GetNumSupportedBoxes ==
    /\ ret' = gf_isom_get_num_supported_boxes
    /\ op' = Op("gf_isom_get_num_supported_boxes", 0, Zero4CC)
    /\ UNCHANGED <<heap, TopBoxes, trace, log, calls, pre, prevTrace,
                   overread, bitsRead, rtl, threads>>

\* gf_isom_get_supported_box_type(idx)
GetSupportedBoxType(idx) ==
    /\ idx \in 0..(gf_isom_get_num_supported_boxes - 1)
    /\ ret' = gf_isom_get_supported_box_type(idx)
    /\ op' = Op("gf_isom_get_supported_box_type", idx, Zero4CC)
    /\ UNCHANGED <<heap, TopBoxes, trace, log, calls, pre, prevTrace,
                   overread, bitsRead, rtl, threads>>

NextRegistry ==
    \/ GetNumSupportedBoxes
    \/ \E idx \in 0..(gf_isom_get_num_supported_boxes - 1) : GetSupportedBoxType(idx)

SpecRegistry == Init /\ [][NextRegistry]_vars

\* C11: gf_isom_get_num_supported_boxes() is the number of entries declared
\* in defined_box_types (275 with every optional part of the build enabled),
\* more than the number of distinct primary types; for every index below it
\* gf_isom_get_supported_box_type(index) is the primary type of the entry at
\* that position, so that a type declared by several entries (REFT by 17) is
\* returned once for each of them.
C11_RegistryAccessors ==
    /\ op.name = "gf_isom_get_num_supported_boxes" =>
          /\ ret = 275
          /\ ret = Len(defined_box_types)
          /\ ret > Cardinality(RegisteredTypes)
    /\ op.name = "gf_isom_get_supported_box_type" =>
          /\ ret = defined_box_types[op.a + 1].box_4cc
          /\ Cardinality({i \in 0..274 : gf_isom_get_supported_box_type(i) = ret})
               = Cardinality({j \in 1..Len(defined_box_types) :
                                 defined_box_types[j].box_4cc = ret})
          /\ ret = "REFT" =>
                Cardinality({i \in 0..274 : gf_isom_get_supported_box_type(i) = ret}) = 17

\* the accessor has returned the type of an entry that is not the first
\* entry of its type
C11_Witness ==
    /\ op.name = "gf_isom_get_supported_box_type"
    /\ ret = "REFT"
    /\ \E j \in 1..op.a : defined_box_types[j].box_4cc = ret

\* C12: for every registry entry declared with a secondary 4CC (the track
\* reference kinds of REFT, the item reference kinds of REFI, the grouping
\* types of SGPD and the track-group kind msrc of the TRGT entry, line 299),
\* gf_isom_dump_supported_box stores that 4CC in the matching field of the
\* synthetic node (reference_type, grouping_type or group_type) before it
\* renders the node.
C12_SecondaryStored ==
    op.name = "gf_isom_dump_supported_box" =>
        LET def == defined_box_types[op.a + 1]
            declared == IF def.box_4cc = "TRGT" THEN "msrc" ELSE def.alt_4cc
            node == SupportedBoxNode(op.a)
        IN declared # Zero4CC =>
              /\ Len(calls) = 1
              /\ def.box_4cc \in {"REFT", "REFI", "SGPD", "TRGT"}
              /\ def.box_4cc \in {"REFT", "REFI"} => node.reference_type = declared
              /\ def.box_4cc = "SGPD" => node.grouping_type = declared
              /\ def.box_4cc = "TRGT" => node.group_type = declared

\* C13: gf_isom_dump_supported_box(i) renders a synthetic node whose version
\* is max_version of entry i when that is non-zero and whose flags are the
\* flags of entry i when they are non-zero; a field whose entry value is zero
\* keeps the value of the freshly allocated node.  A renderer that starts
\* with the version and flags of the node shows these values.
C13_VersionFlags ==
    op.name = "gf_isom_dump_supported_box" =>
        LET def == defined_box_types[op.a + 1]
            fresh == gf_isom_box_new(def.box_4cc)
            node == SupportedBoxNode(op.a)
            version == IF def.max_version # 0 THEN def.max_version ELSE fresh.version
            flags == IF def.flags # 0 THEN def.flags ELSE fresh.flags
        IN /\ node.version = version
           /\ node.flags = flags
           /\ node.type = def.box_4cc
           /\ (Len(trace) >= 2 /\ trace[2].k = "attr" /\ trace[2].name = "Version Flags")
                 => trace[2].val = <<version, flags>>

\* the node of the second SAIZ entry, which has flags 1 and max_version 0,
\* has been rendered with these flags
C13_Witness ==
    /\ op.name = "gf_isom_dump_supported_box"
    /\ defined_box_types[op.a + 1].box_4cc = "SAIZ"
    /\ defined_box_types[op.a + 1].flags = 1
    /\ defined_box_types[op.a + 1].max_version = 0
    /\ Len(trace) >= 2
    /\ trace[2] = Attr("Version Flags", <<0, 1>>)

(***************************************************************************)
(* gf_isom_dump on files of two top boxes, among them sample group         *)
(* descriptions with TRIF and NALM entries and PIFF sample encryption      *)
(* boxes (specification SpecXml).                                          *)
(***************************************************************************)
PsecSampleLists ==
    { <<>>,
      <<[null |-> FALSE, IV |-> "iv", subsample_count |-> 1]>>,
      <<[null |-> FALSE, IV |-> "", subsample_count |-> 0],
        [null |-> FALSE, IV |-> "iv", subsample_count |-> 0]>> }

XmlBoxes ==
    {SgpdWith(g, bytes, Len(bytes)) : g \in {"SAMPLE_GROUP_TRIF"},
                                      bytes \in Blobs["SAMPLE_GROUP_TRIF"]}
    \cup {SgpdWith(g, bytes, Len(bytes)) : g \in {"SAMPLE_GROUP_NALM"},
                                           bytes \in Blobs["SAMPLE_GROUP_NALM"]}
    \cup {[Box("UUID", 40) EXCEPT !.internal_4cc = "UUID_PSEC", !.flags = f,
                                  !.samp_aux_info = l] :
             f \in 0..3, l \in PsecSampleLists}
    \cup {[Box("UUID", 0) EXCEPT !.internal_4cc = "UUID_PSEC"],
          Box("FREE", 12), Box("FTYP", 12), Box("MDIA", 12)}

InitXml ==
    /\ \E b1 \in XmlBoxes, b2 \in XmlBoxes : heap = <<b1, b2>>
    /\ TopBoxes = <<1, 2>>
    /\ rtl = FALSE
    /\ Idle

NextXml == \E mov \in BOOLEAN, out \in BOOLEAN : IsomDump(mov, out)

SpecXml == InitXml /\ [][NextXml]_vars

\* C14: for every box tree, the output of gf_isom_dump is well-formed: every
\* opening marker is ended (by > or />) after its attributes and before
\* anything else is written, every closing marker closes the innermost open
\* element and bears its name, nothing stays open at the end, and there is
\* exactly one root element, which holds all the others; this for every
\* input, a tile-region entry whose tileGroup bit is 0 and a PIFF sample
\* encryption box whose flags lack bit 0x2 included.
C14_WellFormed ==
    (op.name = "gf_isom_dump" /\ ret = GF_OK) =>
        LET n == Len(trace)
            InTag == {"open", "start", "attr"}
            Push == {i \in 1..n : trace[i].k \in {"gt", "root"}}
            Pop == {i \in 1..n : trace[i].k = "close"}
            Depth == [i \in 0..n |-> Cardinality({j \in Push : j <= i})
                                     - Cardinality({j \in Pop : j <= i})]
            Starts == {i \in 1..n : trace[i].k \in {"open", "start", "root"}}
            \* the name of the marker that the > at i ends
            Name == [i \in Push |->
                        trace[CHOOSE s \in Starts : s <= i /\ \A t \in Starts : t <= i => t <= s].name]
        IN /\ \A i \in 1..n :
                 /\ trace[i].k \in InTag
                       => (i < n /\ trace[i + 1].k \in {"attr", "gt", "sgt"})
                 /\ trace[i].k \in {"attr", "gt", "sgt"}
                       => (i > 1 /\ trace[i - 1].k \in InTag)
           /\ \A j \in Pop :
                 \E i \in Push :
                    /\ i < j
                    /\ Depth[i] = Depth[j] + 1
                    /\ \A m \in i..(j - 1) : Depth[m] >= Depth[i]
                    /\ Name[i] = trace[j].name
           /\ Depth[n] = 0
           /\ Cardinality({i \in 1..n : trace[i].k = "root"}) = 1
           /\ \A i \in 1..n :
                 trace[i].k \in {"open", "start", "elem", "close"} => Depth[i - 1] >= 1

(***************************************************************************)
(* Strings in attribute values (specification SpecStr): a chapter list     *)
(* with one chapter, a URL data entry with a location and an iTunes item   *)
(* value, for every string of at most MaxLen characters of Chars.          *)
(***************************************************************************)
MaxLen == 2

InitStr ==
    /\ \E str \in UNION {[1..n -> {"a", "'", "\"", "&", ">", "<"}] : n \in 0..MaxLen} :
          \/ heap = <<[Box("CHPL", 20) EXCEPT
                          !.entries = <<[name |-> str, start_time |-> 25000]>>]>>
          \/ heap = <<[Box("URL", 20) EXCEPT !.location = Data(str), !.flags = 0]>>
    /\ TopBoxes = <<>>
    /\ rtl = FALSE
    /\ Idle

SpecStr == InitStr /\ [][NextBits]_vars

\* C15: every string-typed attribute value written is the source string with
\* each of " & < > ' replaced by its entity, so none of them is left unescaped
C15_StringsEscaped ==
    (op.name = "gf_box_dump" /\ ret = GF_OK) =>
        LET p == pre[1]
            src == IF p.type = "CHPL" THEN p.entries[1].name ELSE p.location.bytes
            written == IF p.type = "CHPL" THEN trace[4].attrs[1][2][1] ELSE trace[3].val
        IN /\ written = DumpDataString(src, Len(src))
           /\ \A i \in 1..Len(written) : written[i] \notin {"'", "\"", "&", ">", "<"}

(***************************************************************************)
(* Render calls running interleaved (specification SpecThreads).  Each     *)
(* call of threads has a stack of what it has left to execute; one step    *)
(* executes the statement on top, which reads or writes the shared nodes   *)
(* at most once.  The nodes of these specifications are rendered by        *)
(* reftype_dump, hnti_dump, sgpd_dump, free_dump (which runs in one step)  *)
(* and renderers of the shape of plain_dump.                               *)
(***************************************************************************)
\* the statements of dump_fn(a, trace), in the order of execution
Statements(fn, h, a, outer) ==
    IF fn = "reftype_dump"
    THEN IF h[a].reference_type = Zero4CC THEN <<>>
         ELSE << [k |-> "p->type =", a |-> a, type |-> h[a].reference_type],
                 [k |-> "DumpBox", a |-> a, name |-> "TrackReferenceTypeBox"],
                 [k |-> "fprintf",
                  toks |-> <<Attr("Tracks", SubSeq(h[a].entries, 1, h[a].nb_entries)), Gt>>],
                 [k |-> "gf_box_dump_done", a |-> a, name |-> "TrackReferenceTypeBox"],
                 [k |-> "p->type =", a |-> a, type |-> "REFT"] >>
    ELSE IF fn = "hnti_dump"
    THEN << [k |-> "DumpBox", a |-> a, name |-> "HintTrackInfoBox"],
            [k |-> "fprintf", toks |-> <<Gt>>],
            [k |-> "hnti_dump:2618", a |-> a, i |-> 1],
            \* gf_box_dump_done("HintTrackInfoBox", NULL, trace)
            [k |-> "fprintf", toks |-> <<Close("HintTrackInfoBox")>>] >>
    ELSE IF fn = "sgpd_dump"
    THEN LET ptr == h[a]
         IN << [k |-> "DumpBox", a |-> a, name |-> "SampleGroupDescriptionBox"],
               [k |-> "fprintf",
                toks |-> <<Attr("Version Flags", <<ptr.version, ptr.flags>>),
                           Attr("grouping_type", <<ptr.grouping_type>>)>>
                         \o (IF ptr.version = 1 THEN <<Attr("default_length", <<>>)>>
                             ELSE <<>>)
                         \o <<Gt>>],
               [k |-> "sgpd_dump:for", a |-> a, i |-> 1] >>
            \o (IF ptr.size = 0
                THEN <<[k |-> "fprintf",
                        toks |-> (CASE ptr.grouping_type = "SAMPLE_GROUP_TRIF" ->
                                         trif_dump(Ctx(h), NoData, 0)
                                    [] ptr.grouping_type = "SAMPLE_GROUP_NALM" ->
                                         nalm_dump(Ctx(h), NoData, 0)
                                    [] OTHER ->
                                         fprintf(Ctx(h),
                                                 Placeholder(SgpdEntryName(ptr.grouping_type),
                                                             <<"data">>))).trace]>>
                ELSE <<>>)
            \o <<[k |-> "gf_box_dump_done", a |-> a, name |-> "SampleGroupDescriptionBox"]>>
    ELSE IF fn = "free_dump"
    THEN << [k |-> "dump_fn", fn |-> fn, a |-> a, outer |-> outer] >>
    \* the renderers whose body is the opening marker, the attributes of the
    \* node and gf_box_dump_done (plain_dump)
    ELSE << [k |-> "DumpBox", a |-> a, name |-> fn],
            [k |-> "fprintf", toks |-> fprintf(gf_full_box_dump(Ctx(h), a), Gt).trace],
            [k |-> "gf_box_dump_done", a |-> a, name |-> fn] >>

\* one step of the call t.  In the loop of gf_box_dump_ex the comparisons
\* with rows that hold none of the types the node can have fail whatever is
\* read; a step runs the loop up to the next row that holds one of them and
\* reads a->type for that comparison.
Step(t) ==
    /\ threads[t].stack # <<>>
    /\ \E th \in {threads[t]} :
       \E f \in {Head(th.stack)}, rest \in {Tail(th.stack)},
          c \in {[Ctx(heap) EXCEPT !.trace = th.trace, !.log = th.log, !.calls = th.calls]} :
          CASE f.k = "gf_box_dump_ex" ->
                 IF f.a = NULL
                 THEN /\ threads' = [threads EXCEPT ![t].stack = rest,
                                        ![t].trace = NullBoxErr(c, Zero4CC).trace]
                      /\ heap' = heap
                 ELSE \E p \in {heap[f.a]} :
                      \E types \in {{p.type} \cup
                                    (IF p.reference_type # Zero4CC
                                     THEN {"REFT", p.reference_type} ELSE {})} :
                      \E rows \in {{j \in f.i..gf_isom_get_num_supported_boxes :
                                       defined_box_types[j].box_4cc \in types}} :
                         /\ heap' = heap
                         /\ IF rows = {}
                            THEN threads' = [threads EXCEPT ![t].stack =
                                      <<[k |-> "GF_LOG", a |-> f.a, outer |-> f.outer]>> \o rest]
                            ELSE \E i \in {CHOOSE j \in rows : \A l \in rows : j <= l} :
                                    IF defined_box_types[i].box_4cc = p.type
                                    THEN threads' = [threads EXCEPT
                                           ![t].calls = Append(@, [a |-> f.a, type |-> p.type,
                                                   idx |-> i,
                                                   fn |-> defined_box_types[i].dump_fn]),
                                           ![t].stack = Statements(defined_box_types[i].dump_fn,
                                                                   heap, f.a, f.outer) \o rest]
                                    ELSE threads' = [threads EXCEPT ![t].stack =
                                                        <<[f EXCEPT !.i = i + 1]>> \o rest]
            [] f.k = "GF_LOG" ->
                 /\ threads' = [threads EXCEPT ![t].stack = rest,
                        ![t].log = GF_LOG(c, "[isom] trying to dump box not registered",
                                          heap[f.a].type).log,
                        ![t].ret = IF f.outer THEN GF_ISOM_INVALID_FILE ELSE @]
                 /\ heap' = heap
            [] f.k = "p->type =" ->
                 /\ heap' = SetType(c, f.a, f.type).heap
                 /\ threads' = [threads EXCEPT ![t].stack = rest]
            [] f.k = "DumpBox" ->
                 /\ threads' = [threads EXCEPT ![t].stack = rest,
                                               ![t].trace = DumpBox(c, f.a, f.name).trace]
                 /\ heap' = heap
            [] f.k = "fprintf" ->
                 /\ threads' = [threads EXCEPT ![t].stack = rest, ![t].trace = @ \o f.toks]
                 /\ heap' = heap
            [] f.k = "gf_box_dump_done" ->
                 /\ threads' = [threads EXCEPT ![t].stack =
                        (IF heap[f.a].other_boxes # <<>>
                         THEN <<[k |-> "gf_box_array_dump", list |-> heap[f.a].other_boxes,
                                 i |-> 1]>>
                         ELSE <<>>)
                        \o <<[k |-> "fprintf", toks |-> <<Close(f.name)>>]>> \o rest]
                 /\ heap' = heap
            [] f.k = "gf_box_array_dump" ->
                 LET e == gf_list_enum(f.list, f.i)
                 IN /\ threads' = [threads EXCEPT ![t].stack =
                           IF e.item = NULL THEN rest
                           ELSE <<[k |-> "gf_box_dump_ex", a |-> e.item, i |-> 1,
                                   outer |-> FALSE],
                                  [f EXCEPT !.i = e.i]>> \o rest]
                    /\ heap' = heap
            [] f.k = "gf_isom_dump" ->
                 /\ threads' = [threads EXCEPT
                        ![t].stack = <<[k |-> "gf_isom_dump:592", i |-> 1]>> \o rest,
                        ![t].trace = @ \o <<[k |-> "xmldecl"],
                                            Comment("MP4Box dump trace", Zero4CC),
                                            [k |-> "root", name |-> "IsoMediaFile"]>>]
                 /\ heap' = heap
            [] f.k = "gf_isom_dump:592" ->
                 LET e == gf_list_enum(TopBoxes, f.i)
                 IN /\ threads' =
                           IF e.item = NULL
                           THEN [threads EXCEPT ![t].stack = rest, ![t].ret = GF_OK,
                                                ![t].trace = Append(@, Close("IsoMediaFile"))]
                           ELSE [threads EXCEPT
                                    ![t].stack = <<[k |-> "gf_box_dump_ex", a |-> e.item,
                                                    i |-> 1, outer |-> FALSE],
                                                   [f EXCEPT !.i = e.i]>> \o rest,
                                    ![t].trace = IF heap[e.item].type \in TopLevelTypes THEN @
                                                 ELSE BadTopBoxErr(c, e.item).trace]
                    /\ heap' = heap
            [] f.k = "hnti_dump:2618" ->
                 LET e == gf_list_enum(heap[f.a].other_boxes, f.i)
                 IN /\ threads' =
                           IF e.item = NULL THEN [threads EXCEPT ![t].stack = rest]
                           ELSE IF heap[e.item].type # "RTP"
                           THEN [threads EXCEPT
                                    ![t].stack = <<[k |-> "gf_box_dump_ex", a |-> e.item,
                                                    i |-> 1, outer |-> FALSE],
                                                   [f EXCEPT !.i = e.i]>> \o rest]
                           ELSE [threads EXCEPT
                                    ![t].stack = <<[k |-> "gf_box_dump_done", a |-> f.a,
                                                    name |-> "RTPInfoBox"],
                                                   [f EXCEPT !.i = e.i]>> \o rest,
                                    ![t].trace = @ \o <<StartTag("RTPInfoBox",
                                                                 << <<"subType", <<>> >> >>),
                                                        Gt>>]
                    /\ heap' = heap
            [] f.k = "sgpd_dump:for" ->
                 LET ptr == heap[f.a]
                 IN /\ threads' =
                           IF f.i > Len(ptr.group_descriptions)
                           THEN [threads EXCEPT ![t].stack = rest]
                           ELSE IF ptr.grouping_type = "SAMPLE_GROUP_NALM"
                           THEN [threads EXCEPT
                                    ![t].stack = <<[k |-> "nalm_dump",
                                                    entry |-> ptr.group_descriptions[f.i]],
                                                   [f EXCEPT !.i = @ + 1]>> \o rest]
                           ELSE [threads EXCEPT
                                    ![t].stack = <<[f EXCEPT !.i = @ + 1]>> \o rest,
                                    ![t].trace = SgpdEntry(c, ptr.grouping_type,
                                                           ptr.group_descriptions[f.i]).trace]
                    /\ heap' = heap
            [] f.k = "nalm_dump" ->
                 /\ threads' =
                       IF f.entry.data.null
                       THEN [threads EXCEPT ![t].stack = rest,
                                            ![t].trace = nalm_dump(c, NoData, 0).trace]
                       ELSE LET bs == gf_bs_new(f.entry.data, f.entry.length)
                                large_size == gf_bs_read_int(bs, 6, 1)
                                rle == gf_bs_read_int(bs, 7, 1)
                                n == IF large_size # 0 THEN 16 ELSE 8
                                entry_count == gf_bs_read_int(bs, 8, n)
                            IN [threads EXCEPT
                                  ![t].stack = <<[k |-> "nalm_dump:4700", bs |-> bs,
                                                  pos |-> 8 + n, entry_count |-> entry_count,
                                                  rle |-> rle, large_size |-> large_size,
                                                  read |-> entry_count]>> \o rest,
                                  ![t].trace = @ \o
                                      <<StartTag("NALUMap", << <<"rle", <<rle>> >>,
                                                              <<"large_size", <<large_size>> >> >>),
                                        Gt>>]
                 /\ heap' = heap
            [] f.k = "nalm_dump:4700" ->
                 /\ threads' =
                       IF f.entry_count = 0
                       THEN [threads EXCEPT ![t].stack = rest,
                                            ![t].trace = Append(@, Close("NALUMap"))]
                       ELSE LET r == NalmEntry(c, f.bs, f.pos, f.entry_count, f.rle,
                                               f.large_size)
                            IN [threads EXCEPT
                                  ![t].stack = <<[f EXCEPT !.pos = r.pos,
                                                           !.entry_count = r.entry_count]>>
                                               \o rest,
                                  ![t].trace = r.c.trace]
                 /\ heap' = heap
            [] f.k = "dump_fn" ->
                 LET r == free_dump(c, f.a)
                 IN /\ threads' = [threads EXCEPT ![t].stack = rest,
                           ![t].trace = r.c.trace, ![t].log = r.c.log, ![t].calls = r.c.calls,
                           ![t].ret = IF f.outer THEN r.e ELSE @]
                    /\ heap' = r.c.heap
    /\ UNCHANGED <<TopBoxes, trace, log, ret, calls, op, pre, prevTrace, overread, bitsRead, rtl>>

\* two calls of gf_box_dump, on the same node or on two nodes; pre keeps the
\* nodes as they are when the calls are made
InitThreads ==
    /\ \E r1 \in {"REF_HINT", "FREE"}, o1 \in {<<>>, <<3>>},
          n2 \in {[Box("REFT", 16) EXCEPT !.reference_type = "REF_CHAP",
                                          !.entries = <<2>>, !.nb_entries = 1],
                  Box("FREE", 8)},
          n3 \in {[Box("REFT", 12) EXCEPT !.reference_type = "REF_OD"], Box("FREE", 8)} :
          heap = << [Box("REFT", 16) EXCEPT !.reference_type = r1, !.entries = <<1>>,
                                            !.nb_entries = 1, !.other_boxes = o1],
                    n2, n3 >>
    /\ \E a2 \in {1, 2} :
          threads = [t \in {1, 2} |->
                        [a |-> IF t = 1 THEN 1 ELSE a2,
                         stack |-> <<[k |-> "gf_box_dump_ex", a |-> IF t = 1 THEN 1 ELSE a2,
                                      i |-> 1, outer |-> TRUE]>>,
                         trace |-> <<>>, log |-> <<>>, calls |-> <<>>, ret |-> GF_OK]]
    /\ TopBoxes = <<>> /\ rtl = FALSE
    /\ trace = <<>> /\ log = <<>> /\ ret = GF_OK /\ calls = <<>>
    /\ op = Op("init", 0, Zero4CC) /\ pre = heap /\ prevTrace = <<>>
    /\ overread = FALSE /\ bitsRead = 0

SpecThreads == InitThreads /\ [][\E t \in DOMAIN threads : Step(t)]_vars

\* C16: two interleaved calls on one REFT node race on its type: a lookup
\* that found a type other than REFT read the reference type another call on
\* the node had written at line 643, and dispatched on it; a call's own
\* opening marker shows the reference type unless another call on the node
\* has restored REFT in between
C16_TypeRace ==
    \A t \in DOMAIN threads :
        LET th == threads[t]
            r == pre[th.a].reference_type
            wrote(u) == /\ threads[u].calls # <<>>
                        /\ threads[u].calls[1].fn = "reftype_dump"
                        /\ \/ threads[u].stack = <<>>
                           \/ Head(threads[u].stack) # [k |-> "p->type =", a |-> th.a, type |-> r]
            others == {u \in DOMAIN threads \ {t} : threads[u].a = th.a}
        IN pre[th.a].type = "REFT" =>
             /\ th.calls # <<>> =>
                  /\ th.calls[1].type \in {"REFT", r}
                  /\ defined_box_types[th.calls[1].idx].box_4cc = th.calls[1].type
                  /\ th.calls[1].type # "REFT" =>
                        /\ th.calls[1].fn # "reftype_dump"
                        /\ \E u \in others : wrote(u)
             /\ th.ret = GF_ISOM_INVALID_FILE => \E u \in others : wrote(u)
             /\ (th.trace # <<>> /\ th.trace[1].name = "TrackReferenceTypeBox") =>
                  /\ th.trace[1].id \in {"REFT", r}
                  /\ th.trace[1].id = "REFT" => \E u \in others : threads[u].stack = <<>>

\* a call dispatched free_dump on the REFT node and its opening marker shows
\* the reference type the other call had written
C16_Witness ==
    \E t \in DOMAIN threads :
        /\ pre[threads[t].a].type = "REFT"
        /\ threads[t].calls # <<>>
        /\ threads[t].calls[1].type = pre[threads[t].a].reference_type
        /\ threads[t].calls[1].fn = "free_dump"
        /\ threads[t].trace # <<>>
        /\ threads[t].trace[1].id = "FREE"
        /\ \E u \in DOMAIN threads \ {t} :
              /\ threads[u].a = threads[t].a
              /\ threads[u].stack # <<>>
              /\ threads[u].calls # <<>>

InitDump ==
    /\ \E kids \in {<<3>>, <<3, 4>>, <<4, 3>>},
          n2 \in {SgpdWith("SAMPLE_GROUP_NALM", bytes, Len(bytes)) :
                      bytes \in Blobs.SAMPLE_GROUP_NALM}
                 \cup {[Box("FREE", 16) EXCEPT !.other_boxes = <<5>>]},
          n4 \in {Box("SDP", 12), Box("RTP", 12),
                  [Box("REFT", 12) EXCEPT !.reference_type = "REF_HINT"]} :
          heap = << [Box("HNTI", 40) EXCEPT !.other_boxes = kids], n2, Box("RTP", 12), n4,
                    Box("FREE", 8) >>
    /\ TopBoxes \in {<<1>>, <<2>>, <<1, 2>>, <<2, 1>>}
    /\ threads = <<[a |-> 0, stack |-> <<[k |-> "gf_isom_dump"]>>,
                    trace |-> <<>>, log |-> <<>>, calls |-> <<>>, ret |-> GF_OK]>>
    /\ rtl = FALSE
    /\ trace = <<>> /\ log = <<>> /\ ret = GF_OK /\ calls = <<>>
    /\ op = Op("init", 0, Zero4CC) /\ pre = heap /\ prevTrace = <<>>
    /\ overread = FALSE /\ bitsRead = 0

\* the call keeps running until it returns
SpecDump == InitDump /\ [][Step(1)]_vars /\ WF_vars(Step(1))

\* C18: on a finite tree without a box among its own descendants
\* gf_isom_dump eventually returns; the while loop of nalm_dump has at most
\* as many iterations left as the count read from the blob, and the walk
\* dispatches every box at most once more than there are RTP boxes
C18_Terminates ==
    /\ <>(threads[1].stack = <<>>)
    /\ [](/\ \A i \in 1..Len(threads[1].stack) :
                threads[1].stack[i].k = "nalm_dump:4700" =>
                    /\ threads[1].stack[i].entry_count <= threads[1].stack[i].read
                    /\ threads[1].stack[i].read <= 65535
          /\ Len(threads[1].calls) <=
                Len(heap) * (1 + Cardinality({n \in 1..Len(heap) : heap[n].type = "RTP"})))

\* gf_isom_dump has returned from a file whose hint track information box
\* has an RTP child and whose NALU map has two entries
C18_Witness ==
    /\ threads[1].stack = <<>>
    /\ TopBoxes = <<1, 2>>
    /\ heap[2].type = "SGPD"
    /\ Cardinality({i \in 1..Len(threads[1].trace) :
                       threads[1].trace[i] = StartTag("NALUMapEntry", <<>>)}) = 2
    /\ \E i \in 1..Len(threads[1].trace) :
          threads[1].trace[i] = Close("RTPInfoBox")
    /\ threads[1].trace[Len(threads[1].trace)] = Close("IsoMediaFile")

\* C19: every renderer called through defined_box_types for a node writes the
\* opening marker first and a closing marker last (the end of a self-closed
\* element counts as one), and right before the closing marker the boxes of
\* the node's other_boxes, each rendered as gf_box_array_dump renders them;
\* none returns without having rendered them
C19_OverflowThenClose ==
    (op.name = "gf_box_dump" /\ calls # <<>>) =>
        \A over \in {gf_box_array_dump(Ctx(pre), pre[op.a].other_boxes).c.trace} :
            LET n == Len(trace)
                m == Len(over)
            IN /\ n >= m + 2
               /\ trace[1].k = "open"
               /\ trace[n] \in {Close(trace[1].name), SelfGt}
               /\ SubSeq(trace, n - m, n - 1) = over

\* C20: a container renderer with required child slots dispatches a slot
\* through gf_box_dump_ex only when the size of the container is not zero;
\* when it is zero the slot is not skipped: the output holds, for each
\* required slot, the placeholder rendering of a box of the slot's type
C20_SlotPlaceholder ==
    LET required == [moov_dump |-> <<"MVHD">>,
                     mdia_dump |-> <<"MDHD", "HDLR", "MINF">>,
                     minf_dump |-> <<"NMHD", "DINF", "STBL">>,
                     dinf_dump |-> <<"DREF">>,
                     stbl_dump |-> <<"STSD", "STTS", "STSC", "STSZ", "STCO">>]
    IN (/\ op.name = "gf_isom_dump_supported_box"
        /\ calls # <<>>
        /\ calls[1].fn \in DOMAIN required) =>
           /\ SupportedBoxNode(op.a).size = 0
           /\ Len(calls) = 1
           /\ \A i \in 1..Len(required[calls[1].fn]) :
                 \E j \in 2..Len(trace) :
                     /\ trace[j].k = "open"
                     /\ trace[j].id = required[calls[1].fn][i]
                     /\ trace[j].size = 0


(***************************************************************************)
(* Type shown by the renderers that substitute the type (specification     *)
(* Spec)                                                                   *)
(***************************************************************************)
\* C21: gnrm_dump, gnrv_dump and gnra_dump write, as the Type attribute of
\* the opening marker, the EntryType of the node, not GNRM, GNRV or GNRA
C21_EntryTypeShown ==
    (op.name = "gf_box_dump" /\ pre[op.a].type \in {"GNRM", "GNRV", "GNRA"}) =>
        /\ trace[1].k = "open"
        /\ trace[1].idAttr = "Type"
        /\ trace[1].id = pre[op.a].EntryType


C23_ZeroReferenceSkipped ==
    (/\ op.name = "gf_box_dump"
     /\ pre[op.a].type \in {"REFT", "REFI"}
     /\ pre[op.a].reference_type = Zero4CC) =>
        /\ trace = <<>>
        /\ log = <<>>
        /\ Len(calls) = 1
        /\ calls[1].a = op.a
        /\ calls[1].fn \in {"reftype_dump", "ireftype_dump"}
        /\ ret = GF_OK
        /\ heap[op.a].type = pre[op.a].type
        /\ heap = pre

C23_Witness ==
    /\ op.name = "gf_box_dump"
    /\ pre[op.a].type = "REFT"
    /\ pre[op.a].reference_type = Zero4CC
    /\ pre[op.a].other_boxes # <<>>
    /\ calls # <<>>
    /\ calls[1].fn = "reftype_dump"
    /\ trace = <<>>


(* Decoders and the length of the blob (specification SpecBits) *)
\* C24: trif_dump and nalm_dump never consume more than data_size bytes of
\* the blob: the reader is left within the blob, and the number of
\* NALUMapEntry and TileRegionDependency entries decoded is at most the number
\* of entries that fit in data_size after the fields before them, whatever
\* entry count the blob declares
C24_BoundedByDataSize ==
    (op.name = "gf_box_dump" /\ calls # <<>> /\ calls[1].fn = "sgpd_dump") =>
        LET e == heap[op.a].group_descriptions[1]
            b == e.data.bytes
            nalm == heap[op.a].grouping_type = "SAMPLE_GROUP_NALM"
            large == (b[1] \div 2) % 2
            rle == b[1] % 2
            full == IF Len(b) >= 3 THEN (b[3] \div 16) % 2 ELSE 0
            header == IF nalm THEN 2 + large ELSE 9 + (IF full = 0 THEN 4 ELSE 0)
            each == IF nalm THEN 2 + rle * (1 + large) ELSE 2
            fits == IF e.length < header THEN 0 ELSE (e.length - header) \div each
            decoded == Cardinality({k \in 1..Len(trace) :
                           /\ trace[k].k \in {"start", "elem"}
                           /\ trace[k].name \in {"NALUMapEntry", "TileRegionDependency"}})
        IN /\ bitsRead <= 8 * e.length
           /\ decoded <= fits


(* Placeholders of the blob decoders (specification SpecSynth) *)
\* C25: when the blob is absent, trif_dump and nalm_dump write one
\* placeholder element per kind of repeated structure, with empty values, and
\* the element names and the nesting of that output are those of the output
\* for a real blob that uses every optional part of the layout: one
\* TileRegionGroupEntry containing one TileRegionDependency, one NALUMap
\* containing one NALUMapEntry
C25_PlaceholderShape ==
    (/\ op.name = "gf_isom_dump_supported_box"
     /\ defined_box_types[op.a + 1].box_4cc = "SGPD"
     /\ defined_box_types[op.a + 1].alt_4cc \in {"SAMPLE_GROUP_TRIF", "SAMPLE_GROUP_NALM"}) =>
        LET trif == defined_box_types[op.a + 1].alt_4cc = "SAMPLE_GROUP_TRIF"
            \* what is written between the opening and the closing marker of
            \* the SampleGroupDescriptionBox
            first == CHOOSE k \in 1..Len(trace) :
                        trace[k].k = "gt" /\ \A j \in 1..(k - 1) : trace[j].k # "gt"
            body == SubSeq(trace, first + 1, Len(trace) - 1)
            \* whether the opening marker begun at token i - 1 ends as an
            \* element that holds others ("open") or as an empty element
            Ending(tr, i) ==
                LET e == CHOOSE k \in i..Len(tr) :
                            /\ tr[k].k \in {"gt", "sgt"}
                            /\ \A j \in i..(k - 1) : tr[j].k \notin {"gt", "sgt"}
                IN IF tr[e].k = "gt" THEN "open" ELSE "elem"
            RECURSIVE Shape(_, _)
            Shape(tr, i) ==
                IF i > Len(tr) THEN <<>>
                ELSE (CASE tr[i].k = "start" -> << <<Ending(tr, i + 1), tr[i].name>> >>
                        [] tr[i].k \in {"elem", "close"} -> << <<tr[i].k, tr[i].name>> >>
                        [] OTHER -> <<>>)
                     \o Shape(tr, i + 1)
            Empty(t) == t.k \in {"start", "elem"} =>
                            \A j \in 1..Len(t.attrs) : t.attrs[j][2] = <<>>
            trifBlob == TrifBlob(1, 0, 1)
            real(l) == IF trif
                       THEN trif_dump(Ctx(<<>>), Data(trifBlob), Len(trifBlob)).trace
                       ELSE nalm_dump(Ctx(<<>>), Data(NalmBlob(l, 1, 1)),
                                      Len(NalmBlob(l, 1, 1))).trace
        IN /\ ret = GF_OK
           /\ \A l \in 0..1 : Shape(body, 1) = Shape(real(l), 1)
           /\ Shape(body, 1) =
                 IF trif THEN << <<"open", "TileRegionGroupEntry">>,
                                 <<"elem", "TileRegionDependency">>,
                                 <<"close", "TileRegionGroupEntry">> >>
                 ELSE << <<"open", "NALUMap">>, <<"elem", "NALUMapEntry">>,
                         <<"close", "NALUMap">> >>
           /\ \A k \in 1..Len(body) : Empty(body[k])

C25_Witness ==
    /\ op.name = "gf_isom_dump_supported_box"
    /\ defined_box_types[op.a + 1].box_4cc = "SGPD"
    /\ defined_box_types[op.a + 1].alt_4cc = "SAMPLE_GROUP_NALM"
    /\ \E k \in 1..Len(trace) : trace[k].k = "elem" /\ trace[k].name = "NALUMapEntry"


(* Layout of the NALU map (specification SpecBits) *)
\* C26: nalm_dump decodes its blob MSB-first as 6 reserved bits, large_size
\* on 1 bit, rle on 1 bit, entry_count on 16 bits when large_size is set and
\* on 8 bits otherwise, then entry_count entries, each a NALU_startNumber (16
\* bits when large_size is set, 8 otherwise) present only when rle is set
\* followed by a groupID on 16 bits; it writes one NALUMapEntry per entry, in
\* blob order, inside one NALUMap, and reads nothing after the last entry
C26_NalmLayout ==
    (/\ op.name = "gf_box_dump" /\ calls # <<>> /\ calls[1].fn = "sgpd_dump"
     /\ heap[op.a].grouping_type = "SAMPLE_GROUP_NALM"
     /\ heap[op.a].group_descriptions[1].length = heap[op.a].group_descriptions[1].layout) =>
        LET e == heap[op.a].group_descriptions[1]
            b == e.data.bytes
            \* the value of the n bytes that follow byte p, the first byte
            \* being the most significant
            RECURSIVE Val(_, _)
            Val(p, n) == IF n = 0 THEN 0 ELSE 256 * Val(p, n - 1) + b[p + n]
            large_size == (b[1] \div 2) % 2
            rle == b[1] % 2
            w == 1 + large_size
            entry_count == Val(1, w)
            each == rle * w + 2
            Entry(i) ==
                LET p == 1 + w + (i - 1) * each
                IN << StartTag("NALUMapEntry", <<>>) >>
                   \o (IF rle = 1 THEN << Attr("NALU_startNumber", <<Val(p, w)>>) >>
                       ELSE <<>>)
                   \o << Attr("groupID", <<Val(p + rle * w, 2)>>), SelfGt >>
            RECURSIVE Entries(_)
            Entries(i) == IF i = 0 THEN <<>> ELSE Entries(i - 1) \o Entry(i)
            first == CHOOSE k \in 1..Len(trace) :
                        trace[k].k = "gt" /\ \A j \in 1..(k - 1) : trace[j].k # "gt"
        IN /\ b[1] < 4
           /\ SubSeq(trace, first + 1, Len(trace) - 1) =
                 << StartTag("NALUMap", << <<"rle", <<rle>> >>,
                                           <<"large_size", <<large_size>> >> >>), Gt >>
                 \o Entries(entry_count)
                 \o << Close("NALUMap") >>
           /\ bitsRead = 8 * (1 + w + entry_count * each)
           /\ bitsRead = 8 * e.length
           /\ ~overread

C26_Witness ==
    /\ op.name = "gf_box_dump" /\ calls # <<>> /\ calls[1].fn = "sgpd_dump"
    /\ heap[op.a].grouping_type = "SAMPLE_GROUP_NALM"
    /\ heap[op.a].group_descriptions[1].length = heap[op.a].group_descriptions[1].layout
    /\ heap[op.a].group_descriptions[1].data.bytes[1] = 3
    /\ Cardinality({k \in 1..Len(trace) :
                       trace[k].k = "attr" /\ trace[k].name = "NALU_startNumber"}) = 2


(***************************************************************************)
(* Sample tables (specification SpecTable).  The node is a table box whose *)
(* size, entry count and table are drawn independently: a box made by      *)
(* gf_isom_box_new has size 0 until it is written, whatever was stored in  *)
(* it since, and a box read from a file has the size read.                 *)
(***************************************************************************)
TableTypes == {"STSZ", "STZ2", "STCO", "STSS", "STDP", "SDTP", "CO64"}

TableBoxes ==
    { [Box(t, size) EXCEPT !.nb_entries = n, !.table = tab, !.sampleSize = ss,
                           !.entries = IF tab THEN [i \in 1..n |-> 16 * i + 1] ELSE <<>>] :
        t \in TableTypes, size \in {0, 20}, n \in 0..MaxEntries, tab \in BOOLEAN,
        ss \in {0, 4} }

InitTable ==
    /\ \E b \in TableBoxes : (b.sampleSize = 0 \/ b.type \in {"STSZ", "STZ2"}) /\ heap = <<b>>
    /\ TopBoxes = <<1>>
    /\ rtl = FALSE
    /\ Idle

NextTable == BoxDump(1)

SpecTable == InitTable /\ [][NextTable]_vars

\* C27: stsz_dump, stco_dump, stss_dump, stdp_dump, sdtp_dump and co64_dump,
\* given a node whose table pointer is absent, never index the table,
\* whatever the size (zero or not) and the entry count of the node: they
\* write a warning comment or the placeholder element instead and return
\* GF_OK
C27_AbsentTableNotIndexed ==
    (/\ op.name = "gf_box_dump"
     /\ pre[op.a].type \in TableTypes
     /\ ~pre[op.a].table) =>
        /\ ret = GF_OK
        /\ \A k \in 1..Len(trace) : "fault" \notin DOMAIN trace[k]
        /\ \/ pre[op.a].type = "STSZ" /\ pre[op.a].sampleSize # 0
           \/ \E k \in 1..Len(trace) : trace[k].k \in {"comment", "comment_start", "elem"}


(* Entries that share a type (specification SpecSynth) *)
\* C28: any two entries of defined_box_types that have the same box_4cc have
\* the same dump_fn: the renderer that gf_box_dump_ex calls for the node made
\* for an entry is the dump_fn of that entry and of every other entry of its
\* type, whichever of them the lookup matches
C28_SameRenderer ==
    op.name = "gf_isom_dump_supported_box" =>
        \A def \in {defined_box_types[op.a + 1]} :
            /\ \A j \in 1..gf_isom_get_num_supported_boxes :
                  defined_box_types[j].box_4cc = def.box_4cc =>
                      defined_box_types[j].dump_fn = def.dump_fn
            /\ calls # <<>>
            /\ calls[1].fn = def.dump_fn
            /\ defined_box_types[FindBoxDef_last(def.box_4cc)].dump_fn = calls[1].fn

\* the node was made for an entry that is not the first of its type, and the
\* first entry differs from it in version or discriminator
C28_Witness ==
    /\ op.name = "gf_isom_dump_supported_box"
    /\ calls # <<>>
    /\ calls[1].idx < op.a + 1
    /\ defined_box_types[calls[1].idx].max_version # defined_box_types[op.a + 1].max_version
    /\ defined_box_types[calls[1].idx].alt_4cc # defined_box_types[op.a + 1].alt_4cc
    /\ calls[1].fn = defined_box_types[op.a + 1].dump_fn
    /\ calls[1].fn = "sgpd_dump"


(* Arguments and result of gf_isom_dump (specification Spec) *)
\* C29: gf_isom_dump returns GF_BAD_PARAM and writes nothing when the file or
\* the output sink is null; in every other case it writes the opening and the
\* closing marker of the root wrapper and returns GF_OK, whatever the
\* renderers of the top-level boxes return
C29_IsomDumpResult ==
    op.name = "gf_isom_dump" =>
        IF op.arg = "mov,trace"
        THEN /\ ret = GF_OK
             /\ Len(trace) >= 4
             /\ trace[3] = [k |-> "root", name |-> "IsoMediaFile"]
             /\ trace[Len(trace)] = Close("IsoMediaFile")
             /\ \A k \in 1..Len(trace) : trace[k].k = "root" => k = 3
             /\ \A k \in 1..Len(trace) : trace[k] = Close("IsoMediaFile") => k = Len(trace)
        ELSE /\ ret = GF_BAD_PARAM
             /\ trace = <<>>
             /\ log = <<>>
             /\ calls = <<>>
             /\ heap = pre

\* the renderer of a top-level box has failed (no entry of defined_box_types
\* has its type) and gf_isom_dump has returned GF_OK
C29_Witness ==
    /\ op.name = "gf_isom_dump" /\ op.arg = "mov,trace"
    /\ \E i \in 1..Len(TopBoxes) :
          /\ heap[TopBoxes[i]].type = "zzzz"
          /\ gf_box_dump(Ctx(pre), TopBoxes[i]).e = GF_ISOM_INVALID_FILE
    /\ log # <<>>
    /\ ret = GF_OK
    /\ trace[Len(trace)] = Close("IsoMediaFile")


(* Boxes rendered by one gf_isom_dump (specification SpecDump) *)
\* C30: during one gf_isom_dump every box of the tree is rendered exactly
\* once: when the call has returned, a box other than an RTP child of a
\* HintTrackInfoBox has been dispatched once, an RTP child has been written
\* once by hnti_dump itself and never dispatched, also when the other_boxes
\* of the HintTrackInfoBox hold one or more RTP boxes
C30_RenderedOnce ==
    threads[1].stack = <<>> =>
        LET Range(f) == {f[i] : i \in 1..Len(f)}
            Tree == Range(TopBoxes)
                    \cup UNION {Range(heap[p].other_boxes) : p \in Range(TopBoxes)}
            Inline == {n \in Tree : heap[n].type = "RTP" /\
                          \E p \in Tree : heap[p].type = "HNTI" /\ n \in Range(heap[p].other_boxes)}
            Dispatched(n) == Cardinality({i \in 1..Len(threads[1].calls) :
                                             threads[1].calls[i].a = n})
        IN /\ \A n \in Tree \ Inline : Dispatched(n) = 1
           /\ \A n \in Inline : Dispatched(n) = 0
           /\ Cardinality({i \in 1..Len(threads[1].trace) :
                              threads[1].trace[i] = Close("RTPInfoBox")})
                 = Cardinality(Inline)

=============================================================================
